---- MODULE Spec2Model ----
(***************************************************************************)
(* A model of the Ninja build-graph generator of rpmalloc                  *)
(* (build/ninja/*.py, configure.py).                                       *)
(*                                                                         *)
(* Python strings that the code takes apart (platform identifiers, paths,  *)
(* file names, hashed module identities) are sequences of one-character    *)
(* strings, so that startswith, "in", os.path.join/split/splitext and the  *)
(* Adler-32 path hash are computed as the code computes them.  Strings the *)
(* code only compares or concatenates (rule names, flags) are TLA+ strings.*)
(* os.path is posixpath (os.sep = "/").                                    *)
(***************************************************************************)
EXTENDS Integers, Sequences, FiniteSets, TLC

VARIABLES
    raw,        \* Platform: the raw identifier handed to Platform(...)
    plat,       \* Platform: self.platform of the constructed descriptor
    fin,        \* flag derivation: the inputs (backend, target, arch, ...)
    fout,       \* flag derivation: the derived flag lists
    inp,        \* generation run: command line, environment, constructor arguments
    gen,        \* generation run: the toolchain object, build.ninja, exit status
    pc,         \* generation run: "start", "ready" (configure.py may request
                \* artifacts) or "stopped" (sys.exit or an uncaught exception)
    last        \* generation run: the latest request and what it returned

vars == <<raw, plat, fin, fout, inp, gen, pc, last>>

----------------------------------------------------------------------------
(* Python str and list helpers *)

\* the literals of the source, as character sequences
L_linux                == <<"l","i","n","u","x">>
L_darwin               == <<"d","a","r","w","i","n">>
L_macos                == <<"m","a","c","o","s">>
L_win                  == <<"w","i","n">>
L_windows              == <<"w","i","n","d","o","w","s">>
L_bsd                  == <<"b","s","d">>
L_ios                  == <<"i","o","s">>
L_android              == <<"a","n","d","r","o","i","d">>
L_raspberry            == <<"r","a","s","p","b","e","r","r","y">>
L_raspberrypi          == <<"r","a","s","p","b","e","r","r","y","p","i">>
L_pnacl                == <<"p","n","a","c","l">>
L_tizen                == <<"t","i","z","e","n">>
L_sunos                == <<"s","u","n","o","s">>
L_plan9                == <<"p","l","a","n","9">>
L_cygwin               == <<"c","y","g","w","i","n">>
L_free                 == <<"f","r","e","e">>
L_gnu                  == <<"-","x","8","6","_","6","4","-","g","n","u">>
L_n2                   == <<"2">>
L_n32                  == <<"3","2">>
L_n5                   == <<"5">>
L_pi                   == <<"p","i">>
L_empty                == <<>>
L_dot                  == <<".">>
L_dotdot               == <<".",".">>
L_dash                 == <<"-">>
L_lib                  == <<"l","i","b">>
L_bin                  == <<"b","i","n">>
L_sharedlib            == <<"s","h","a","r","e","d","l","i","b">>
L_multilib             == <<"m","u","l","t","i","l","i","b">>
L_multisharedlib       == <<"m","u","l","t","i","s","h","a","r","e","d","l","i","b">>
L_multibin             == <<"m","u","l","t","i","b","i","n">>
L_build                == <<"b","u","i","l","d">>
L_ninja                == <<"n","i","n","j","a">>
L_buildpath            == <<"$","b","u","i","l","d","p","a","t","h">>
L_dot_lib              == <<".","l","i","b">>
L_dot_a                == <<".","a">>
L_dot_so               == <<".","s","o">>
L_dot_dll              == <<".","d","l","l">>
L_dot_dylib            == <<".","d","y","l","i","b">>
L_dot_exe              == <<".","e","x","e">>
L_dot_bc               == <<".","b","c">>
L_dot_o                == <<".","o">>
L_dot_obj              == <<".","o","b","j">>
L_dot_h                == <<".","h">>
L_dot_java             == <<".","j","a","v","a">>
L_us_lib               == <<"_","l","i","b">>
L_c                    == <<"c">>
L_cc                   == <<"c","c">>
L_cpp                  == <<"c","p","p">>
L_m                    == <<"m">>
L_debug                == <<"d","e","b","u","g">>
L_release              == <<"r","e","l","e","a","s","e">>
L_profile              == <<"p","r","o","f","i","l","e">>
L_deploy               == <<"d","e","p","l","o","y">>
L_x86                  == <<"x","8","6">>
L_x86_64               == <<"x","8","6","-","6","4">>
L_x86__64              == <<"x","8","6","_","6","4">>
L_amd64                == <<"a","m","d","6","4">>
L_i686                 == <<"i","6","8","6">>
L_ppc                  == <<"p","p","c">>
L_ppc64                == <<"p","p","c","6","4">>
L_arm6                 == <<"a","r","m","6">>
L_arm7                 == <<"a","r","m","7">>
L_arm64                == <<"a","r","m","6","4">>
L_mips                 == <<"m","i","p","s">>
L_mips64               == <<"m","i","p","s","6","4">>
L_generic              == <<"g","e","n","e","r","i","c">>
L_rpmalloc             == <<"r","p","m","a","l","l","o","c">>
L_foundation           == <<"f","o","u","n","d","a","t","i","o","n">>
L_nope                 == <<"n","o","p","e">>
L_sub                  == <<"s","u","b">>
L_AndroidManifest_xml  == <<"A","n","d","r","o","i","d","M","a","n","i","f","e","s","t",".","x","m","l">>
L_AppIcon_icns         == <<"A","p","p","I","c","o","n",".","i","c","n","s">>
L_CodeResources        == <<"C","o","d","e","R","e","s","o","u","r","c","e","s">>
L_CodeSignature        == <<"_","C","o","d","e","S","i","g","n","a","t","u","r","e">>
L_Contents             == <<"C","o","n","t","e","n","t","s">>
L_DWARF                == <<"D","W","A","R","F">>
L_Info_plist           == <<"I","n","f","o",".","p","l","i","s","t">>
L_MacOS                == <<"M","a","c","O","S">>
L_PkgInfo              == <<"P","k","g","I","n","f","o">>
L_Resources            == <<"R","e","s","o","u","r","c","e","s">>
L_apk                  == <<"a","p","k">>
L_app                  == <<"a","p","p">>
L_asset                == <<"a","s","s","e","t">>
L_base_apk             == <<".","b","a","s","e",".","a","p","k">>
L_binname_macro        == <<"$","(","b","i","n","n","a","m","e",")">>
L_classes              == <<"c","l","a","s","s","e","s">>
L_classes_dex          == <<"c","l","a","s","s","e","s",".","d","e","x">>
L_codesign_py          == <<"c","o","d","e","s","i","g","n",".","p","y">>
L_dot_apk              == <<".","a","p","k">>
L_dot_app              == <<".","a","p","p">>
L_dot_dSYM             == <<".","d","S","Y","M">>
L_dot_nib              == <<".","n","i","b">>
L_dot_plist            == <<".","p","l","i","s","t">>
L_dot_xcassets         == <<".","x","c","a","s","s","e","t","s">>
L_dot_xib              == <<".","x","i","b">>
L_gen                  == <<"g","e","n">>
L_objects8_nib         == <<"o","b","j","e","c","t","s","-","8",".","0","+",".","n","i","b">>
L_objects_nib          == <<"o","b","j","e","c","t","s",".","n","i","b">>
L_plist_py             == <<"p","l","i","s","t",".","p","y">>
L_res                  == <<"r","e","s">>
L_runtime_nib          == <<"r","u","n","t","i","m","e",".","n","i","b">>
L_unaligned_apk        == <<".","u","n","a","l","i","g","n","e","d",".","a","p","k">>
L_unsigned_apk         == <<".","u","n","s","i","g","n","e","d",".","a","p","k">>
L_xcassets_plist       == <<"-","x","c","a","s","s","e","t","s",".","p","l","i","s","t">>
L_xib_plist            == <<"-","x","i","b",".","p","l","i","s","t">>

\* Python's None
None == <<"None">>

\* s.startswith(p)
StartsWith(s, p) == Len(s) >= Len(p) /\ SubSeq(s, 1, Len(p)) = p

\* s.endswith(p)
EndsWith(s, p) == Len(s) >= Len(p) /\ SubSeq(s, Len(s) - Len(p) + 1, Len(s)) = p

\* p in s
Contains(s, p) == \E i \in 1..(Len(s) - Len(p) + 1) : SubSeq(s, i, i + Len(p) - 1) = p

\* the text of a character sequence as one TLA+ string
RECURSIVE ToStr(_)
ToStr(s) == IF s = <<>> THEN "" ELSE Head(s) \o ToStr(Tail(s))

\* the elements of a list
Range(s) == {s[i] : i \in 1..Len(s)}

\* the characters that occur in the identifiers and paths of the model, each
\* run in ASCII order, with the code of the first character of the run
AsciiRuns ==
    <<<<36, <<"$">>>>,
      <<45, <<"-", ".", "/", "0","1","2","3","4","5","6","7","8","9">>>>,
      <<65, <<"A","B","C","D","E","F","G","H","I","J","K","L","M","N","O",
              "P","Q","R","S","T","U","V","W","X","Y","Z">>>>,
      <<95, <<"_">>>>,
      <<97, <<"a","b","c","d","e","f","g","h","i","j","k","l","m","n","o",
              "p","q","r","s","t","u","v","w","x","y","z">>>>>>

\* the code of character c of a run
OrdIn(c, run) == run[1] + (CHOOSE i \in 1..Len(run[2]) : run[2][i] = c) - 1

\* the run that holds character c
RunOf(c, runs) == runs[CHOOSE r \in 1..Len(runs) : c \in Range(runs[r][2])]

\* ord(c)
Ord(c) == OrdIn(c, RunOf(c, AsciiRuns))

\* the running sums (a, b) of zlib.adler32 over the bytes of s
RECURSIVE AdlerSums(_, _, _)
AdlerSums(s, a, b) ==
    IF s = <<>> THEN <<a, b>>
    ELSE AdlerSums(Tail(s), (a + Ord(Head(s))) % 65521, (b + a + Ord(Head(s))) % 65521)

\* zlib.adler32(s) & 0xffffffff
Adler(ab) == ab[2] * 65536 + ab[1]
adler32(s) == Adler(AdlerSums(s, 1, 0))

HexDigits == <<"0","1","2","3","4","5","6","7","8","9","a","b","c","d","e","f">>

\* the digits of hex(n), without the "0x" prefix
RECURSIVE HexOf(_)
HexOf(n) == IF n < 16 THEN <<HexDigits[n + 1]>> ELSE HexOf(n \div 16) \o <<HexDigits[(n % 16) + 1]>>

\* hex(n)[2:-1]: where n is a Python 2 long the text ends with "L" and the
\* slice removes exactly that; where n is an int the slice removes the last digit
Slice(h, islong) == IF islong THEN h ELSE SubSeq(h, 1, Len(h) - 1)
HexSlice(n, islong) == Slice(HexOf(n), islong)

\* os.path.isabs
isabs(p) == StartsWith(p, <<"/">>)

\* os.path.join(a, b)
join(a, b) ==
    IF isabs(b) THEN b
    ELSE IF a = <<>> \/ EndsWith(a, <<"/">>) THEN a \o b
    ELSE a \o <<"/">> \o b

\* os.path.join(parts[1], parts[2], ...)
RECURSIVE joinAll(_)
joinAll(parts) ==
    IF Len(parts) = 1 THEN parts[1]
    ELSE join(joinAll(SubSeq(parts, 1, Len(parts) - 1)), parts[Len(parts)])

\* s.rfind(c) as a 1-based index, 0 when c is not in s
RFind(s, c) == IF \E i \in 1..Len(s) : s[i] = c
               THEN CHOOSE i \in 1..Len(s) : s[i] = c /\ \A j \in (i + 1)..Len(s) : s[j] # c
               ELSE 0

\* s.rstrip("/")
RECURSIVE RStripSep(_)
RStripSep(s) == IF s # <<>> /\ s[Len(s)] = "/" THEN RStripSep(SubSeq(s, 1, Len(s) - 1)) ELSE s

\* os.path.split(p): <<head, tail>>
SplitHead(head, stripped) == IF head # <<>> /\ stripped # <<>> THEN stripped ELSE head
SplitAt(p, i) == <<SplitHead(SubSeq(p, 1, i), RStripSep(SubSeq(p, 1, i))), SubSeq(p, i + 1, Len(p))>>
split(p) == SplitAt(p, RFind(p, "/"))

\* os.path.basename
basename(p) == split(p)[2]

\* os.path.splitext(p): <<root, ext>>
SplitextAt(p, sep, dot) ==
    IF dot > sep /\ \E k \in (sep + 1)..(dot - 1) : p[k] # "."
    THEN <<SubSeq(p, 1, dot - 1), SubSeq(p, dot, Len(p))>>
    ELSE <<p, <<>>>>
splitext(p) == SplitextAt(p, RFind(p, "/"), RFind(p, "."))

\* the components of p between separators
RECURSIVE Components(_)
Components(p) ==
    IF RFind(p, "/") = 0 THEN <<p>>
    ELSE Components(SubSeq(p, 1, RFind(p, "/") - 1)) \o <<SubSeq(p, RFind(p, "/") + 1, Len(p))>>

\* the component stack of os.path.normpath
RECURSIVE NormStack(_, _)
NormPush(st, c, initial) ==
    IF c = <<>> \/ c = <<".">> THEN st
    ELSE IF c # <<".", ".">> THEN Append(st, c)
    ELSE IF st = <<>> THEN (IF initial THEN st ELSE Append(st, c))
    ELSE IF st[Len(st)] = <<".", ".">> THEN Append(st, c)
    ELSE SubSeq(st, 1, Len(st) - 1)
NormStack(comps, initial) ==
    IF comps = <<>> THEN <<>>
    ELSE NormPush(NormStack(SubSeq(comps, 1, Len(comps) - 1), initial), comps[Len(comps)],
                  initial)

\* "/".join(comps)
RECURSIVE SepJoin(_)
SepJoin(comps) ==
    IF comps = <<>> THEN <<>>
    ELSE IF Len(comps) = 1 THEN comps[1]
    ELSE SepJoin(SubSeq(comps, 1, Len(comps) - 1)) \o <<"/">> \o comps[Len(comps)]

\* os.path.normpath
NormFull(full) == IF full = <<>> THEN <<".">> ELSE full
normpath(p) ==
    IF p = <<>> THEN <<".">>
    ELSE NormFull((IF isabs(p) THEN <<"/">> ELSE <<>>)
                  \o SepJoin(NormStack(Components(p), isabs(p))))

----------------------------------------------------------------------------
(* platform.py *)

\* supported_platforms()
supported_platforms ==
    <<L_windows, L_linux, L_macos, L_bsd, L_ios, L_android, L_raspberrypi, L_pnacl, L_tizen>>

\* values of sys.platform, used when no identifier is given
SysPlatforms ==
    {L_linux \o L_n2, L_darwin, L_win \o L_n32, L_cygwin, L_free \o L_bsd, L_sunos \o L_n5}

\* PlatformOf with the Windows test written as a substring test
PlatformOf_WinAnywhere(platform, sysplatform) ==
    LET p == IF platform = None THEN sysplatform ELSE platform
    IN  IF StartsWith(p, L_linux) THEN L_linux
        ELSE IF StartsWith(p, L_darwin) THEN L_macos
        ELSE IF StartsWith(p, L_macos) THEN L_macos
        ELSE IF Contains(p, L_win) THEN L_windows
        ELSE IF Contains(p, L_bsd) THEN L_bsd
        ELSE IF StartsWith(p, L_ios) THEN L_ios
        ELSE IF StartsWith(p, L_android) THEN L_android
        ELSE IF StartsWith(p, L_raspberry) THEN L_raspberrypi
        ELSE IF StartsWith(p, L_pnacl) THEN L_pnacl
        ELSE IF StartsWith(p, L_tizen) THEN L_tizen
        ELSE p

\* PlatformOf with the Raspberry Pi branch storing the fragment it matched
PlatformOf_RaspberryFragment(platform, sysplatform) ==
    LET p == IF platform = None THEN sysplatform ELSE platform
    IN  IF StartsWith(p, L_linux) THEN L_linux
        ELSE IF StartsWith(p, L_darwin) THEN L_macos
        ELSE IF StartsWith(p, L_macos) THEN L_macos
        ELSE IF StartsWith(p, L_win) THEN L_windows
        ELSE IF Contains(p, L_bsd) THEN L_bsd
        ELSE IF StartsWith(p, L_ios) THEN L_ios
        ELSE IF StartsWith(p, L_android) THEN L_android
        ELSE IF StartsWith(p, L_raspberry) THEN L_raspberry
        ELSE IF StartsWith(p, L_pnacl) THEN L_pnacl
        ELSE IF StartsWith(p, L_tizen) THEN L_tizen
        ELSE p

\* Platform.__init__: self.platform after construction
PlatformOf(platform, sysplatform) ==
    LET p == IF platform = None THEN sysplatform ELSE platform
    IN  IF StartsWith(p, L_linux) THEN L_linux
        ELSE IF StartsWith(p, L_darwin) THEN L_macos
        ELSE IF StartsWith(p, L_macos) THEN L_macos
        ELSE IF StartsWith(p, L_win) THEN L_windows
        ELSE IF Contains(p, L_bsd) THEN L_bsd
        ELSE IF StartsWith(p, L_ios) THEN L_ios
        ELSE IF StartsWith(p, L_android) THEN L_android
        ELSE IF StartsWith(p, L_raspberry) THEN L_raspberrypi
        ELSE IF StartsWith(p, L_pnacl) THEN L_pnacl
        ELSE IF StartsWith(p, L_tizen) THEN L_tizen
        ELSE p

is_linux(p) == p = L_linux
is_windows(p) == p = L_windows
is_macos(p) == p = L_macos
is_bsd(p) == p = L_bsd
is_ios(p) == p = L_ios
is_android(p) == p = L_android
is_raspberrypi(p) == p = L_raspberrypi
is_pnacl(p) == p = L_pnacl
is_tizen(p) == p = L_tizen

\* the is_* methods of a Platform object, by the tag each is named after
PlatformPredicates(p) == [
    linux       |-> is_linux(p),
    windows     |-> is_windows(p),
    macos       |-> is_macos(p),
    bsd         |-> is_bsd(p),
    ios         |-> is_ios(p),
    android     |-> is_android(p),
    raspberrypi |-> is_raspberrypi(p),
    pnacl       |-> is_pnacl(p),
    tizen       |-> is_tizen(p)
]

----------------------------------------------------------------------------
(* Python objects and control flow *)

\* None where an object is expected (objects are records, attributes are fields;
\* an attribute exists once a statement has assigned it)
NoObject == [None |-> TRUE]

\* None where a list of strings is expected
NoneList == <<None>>

\* self.a = v, ... for the attributes of the record attrs
SetAttrs(self, attrs) == attrs @@ self

hasattr(self, name) == name \in DOMAIN self

\* The interpreter state threaded through a call: tc is the toolchain object,
\* out the statements written to build.ninja so far, status is "ok", "exit"
\* (sys.exit after a printed diagnostic) or "raise" (an uncaught exception)
Raise(m, exception, what) == [m EXCEPT !.status = "raise", !.diag = <<exception, what>>]

Exit(m, text, what) == [m EXCEPT !.status = "exit", !.diag = <<text, what>>]

----------------------------------------------------------------------------
(* toolchain.py, android.py, xcode.py: construction and the initialize_* steps *)

supported_toolchains == {"msvc", "gcc", "clang", "intel"}

supported_architectures ==
    <<L_x86, L_x86_64, L_ppc, L_ppc64, L_arm6, L_arm7, L_arm64, L_mips, L_mips64, L_generic>>

\* get_boolean_flag, for the values the model passes: True and False
get_boolean_flag(val) == val = TRUE

\* make_toolchain: the backend module that is imported ("None" is the absent option)
make_toolchain(host, target, toolchain) ==
    IF toolchain = "None"
    THEN IF is_raspberrypi(target) THEN "gcc"
         ELSE IF is_windows(host) /\ is_windows(target) THEN "msvc"
         ELSE "clang"
    ELSE toolchain

\* make_pathhash; longint says whether adler32(..) & 0xffffffff is a Python long
make_pathhash(path, targettype, longint) ==
    L_dash \o HexSlice(adler32(path \o targettype), longint)

\* Android.__init__
Android_init(host) ==
    [host |-> host, exe_suffix |-> IF is_windows(host) THEN L_dot_exe ELSE <<>>]

\* the keys of Android.archname, archpath, gcc_toolchainname and gcc_toolchainprefix
AndroidArchs == {L_x86, L_x86_64, L_arm6, L_arm7, L_arm64, L_mips, L_mips64}

\* the values of Android.archname
Android_archname == [a \in AndroidArchs |->
    IF a = L_x86_64 THEN L_x86__64
    ELSE IF a = L_arm6 \/ a = L_arm7 THEN <<"a","r","m">>
    ELSE a]

\* the values of Android.archpath
Android_archpath == [a \in AndroidArchs |->
    IF a = L_arm6 THEN <<"a","r","m","e","a","b","i">>
    ELSE IF a = L_arm7 THEN <<"a","r","m","e","a","b","i","-","v","7","a">>
    ELSE IF a = L_arm64 THEN <<"a","r","m","6","4","-","v","8","a">>
    ELSE a]

\* the values of Android.gcc_toolchainprefix
Android_gcc_toolchainprefix == [a \in AndroidArchs |->
    IF a = L_x86 THEN <<"i","6","8","6","-","l","i","n","u","x","-","a","n","d","r","o","i","d","-">>
    ELSE IF a = L_x86_64 THEN L_x86__64 \o <<"-","l","i","n","u","x","-","a","n","d","r","o","i","d","-">>
    ELSE IF a = L_arm6 \/ a = L_arm7
    THEN <<"a","r","m","-","l","i","n","u","x","-","a","n","d","r","o","i","d","e","a","b","i","-">>
    ELSE IF a = L_arm64
    THEN <<"a","a","r","c","h","6","4","-","l","i","n","u","x","-","a","n","d","r","o","i","d","-">>
    ELSE IF a = L_mips THEN <<"m","i","p","s","e","l","-","l","i","n","u","x","-","a","n","d","r","o","i","d","-">>
    ELSE <<"m","i","p","s","6","4","e","l","-","l","i","n","u","x","-","a","n","d","r","o","i","d","-">>]

\* Android.initialize_toolchain: gcc_toolchainname is built from the version
\* that holds at this point
Android_initialize_toolchain(self, env) ==
    LET version == <<"4",".","9">>
        named == SetAttrs(self, [
            ndkpath              |-> env.NDK_HOME,
            sdkpath              |-> env.ANDROID_HOME,
            sysroot              |-> <<>>,
            platformversion      |-> <<"2","1">>,
            gcc_toolchainversion |-> version,
            javasdk              |-> <<>>,
            archname             |-> Android_archname,
            archpath             |-> Android_archpath,
            gcc_toolchainname    |-> [a \in AndroidArchs |->
                IF a = L_x86 \/ a = L_x86_64 THEN Android_archname[a] \o L_dash \o version
                ELSE Android_gcc_toolchainprefix[a] \o version],
            gcc_toolchainprefix  |-> Android_gcc_toolchainprefix])
        linux64 == <<"l","i","n","u","x","-">> \o L_x86__64
        linux32 == <<"l","i","n","u","x","-">> \o L_x86
        windows64 == <<"w","i","n","d","o","w","s","-">> \o L_x86__64
        darwin64 == <<"d","a","r","w","i","n","-">> \o L_x86__64
    IN  IF is_windows(self.host) THEN SetAttrs(named, [hostarchname |-> windows64])
        ELSE IF is_linux(self.host)
        THEN SetAttrs(named, [hostarchname |->
                 IF env.localarch = L_x86__64 THEN linux64 ELSE linux32])
        ELSE IF is_macos(self.host) THEN SetAttrs(named, [hostarchname |-> darwin64])
        ELSE named

\* XCode.__init__
XCode_init(host, target) == [host |-> host, target |-> target]

\* XCode.initialize_toolchain
XCode_initialize_toolchain(self) ==
    LET named == SetAttrs(self, [organisation |-> <<>>, bundleidentifier |-> <<>>,
                                 provisioning |-> <<>>])
    IN  IF is_macos(self.target) THEN SetAttrs(named, [deploymenttarget |-> "10.7"])
        ELSE IF is_ios(self.target) THEN SetAttrs(named, [deploymenttarget |-> "8.0"])
        ELSE named

\* Toolchain.__init__ (the command wrappers rmcmd, cdcmd, mkdircmd, copycmd
\* are functions of host alone and are not stored)
Toolchain_init(host, target, toolchain) == [
    host             |-> host,
    target           |-> target,
    toolchain        |-> toolchain,
    subninja         |-> <<>>,
    build_monolithic |-> FALSE,
    build_coverage   |-> FALSE,
    support_lua      |-> FALSE,
    internal_deps    |-> FALSE,
    python           |-> "python",
    objext           |-> L_dot_o,
    libprefix        |-> IF is_windows(target) THEN <<>> ELSE L_lib,
    staticlibext     |-> IF is_windows(target) THEN L_dot_lib ELSE L_dot_a,
    dynamiclibext    |-> IF is_windows(target) THEN L_dot_dll
                         ELSE IF is_android(target) \/ is_pnacl(target) THEN L_dot_so
                         ELSE IF is_macos(target) \/ is_ios(target) THEN L_dot_dylib
                         ELSE L_dot_so,
    binprefix        |-> IF is_android(target) THEN L_lib ELSE <<>>,
    binext           |-> IF is_windows(target) THEN L_dot_exe
                         ELSE IF is_android(target) THEN L_dot_so
                         ELSE IF is_pnacl(target) THEN L_dot_bc
                         ELSE <<>>,
    buildpath        |-> joinAll(<<L_build, L_ninja, target>>),
    libpath          |-> join(L_lib, target),
    binpath          |-> join(L_bin, target),
    depend_includepaths |-> <<>>,
    depend_libpaths  |-> <<>>,
    android          |-> IF is_android(target) THEN Android_init(host) ELSE NoObject,
    xcode            |-> IF is_macos(target) \/ is_ios(target)
                         THEN XCode_init(host, target) ELSE NoObject,
    builders         |-> <<>>,
    paths_created    |-> <<>>
]

\* Toolchain.initialize_subninja
Toolchain_initialize_subninja(self, path) == [self EXCEPT !.subninja = path]

\* Toolchain.initialize_default_archs: the value of self.archs afterwards
Toolchain_initialize_default_archs(self, env) ==
    LET t == self.target IN
    IF is_windows(t) THEN <<L_x86_64>>
    ELSE IF is_linux(t) \/ is_bsd(t)
    THEN (IF env.localarch = L_x86__64 \/ env.localarch = L_amd64 THEN <<L_x86_64>>
          ELSE IF env.localarch = L_i686 THEN <<L_x86>>
          ELSE <<env.localarch>>)
    ELSE IF is_macos(t) THEN <<L_x86_64>>
    ELSE IF is_ios(t) THEN <<L_arm7, L_arm64>>
    ELSE IF is_raspberrypi(t) THEN <<L_arm6>>
    ELSE IF is_android(t) THEN <<L_arm7, L_arm64, L_x86, L_x86_64>>
    ELSE IF is_tizen(t) THEN <<L_x86, L_arm7>>
    ELSE IF is_pnacl(t) THEN <<L_generic>>
    ELSE self.archs

\* Toolchain.initialize_archs
Toolchain_initialize_archs(self, archs, env) ==
    LET listed == SetAttrs(self, [archs |-> archs])
    IN  IF archs = <<>>
        THEN [listed EXCEPT !.archs = Toolchain_initialize_default_archs(listed, env)]
        ELSE listed

\* Toolchain.initialize_configs, initialize_default_configs
Toolchain_initialize_configs(self, configs) ==
    SetAttrs(self, [configs |-> IF configs = <<>> THEN <<L_debug, L_release>> ELSE configs])

\* Toolchain.initialize_project (version.generate_version rewrites version.c
\* and touches neither the toolchain nor build.ninja)
Toolchain_initialize_project(self, project) == SetAttrs(self, [project |-> project])

\* Toolchain.initialize_toolchain
Toolchain_initialize_toolchain(self, env) == [self EXCEPT
    !.android = IF @ # NoObject THEN Android_initialize_toolchain(@, env) ELSE @,
    !.xcode = IF @ # NoObject THEN XCode_initialize_toolchain(@) ELSE @
]

\* Toolchain.initialize_depends as it would be if a library that does not
\* resolve were passed over without sys.exit
RECURSIVE Toolchain_initialize_depends_Skip(_, _, _)
Toolchain_initialize_depends_Skip(m, dependlibs, env) ==
    IF dependlibs = <<>> THEN m
    ELSE Toolchain_initialize_depends_Skip(
             IF joinAll(<<L_dotdot, Head(dependlibs) \o L_us_lib, Head(dependlibs),
                          Head(dependlibs) \o L_dot_h>>) \in env.files
             THEN [m EXCEPT !.tc.depend_includepaths =
                                Append(@, join(L_dotdot, Head(dependlibs) \o L_us_lib))]
             ELSE m,
             Tail(dependlibs), env)

\* Toolchain.initialize_depends; env.files is the set of paths for which
\* os.path.isfile holds
RECURSIVE Toolchain_initialize_depends(_, _, _)
Toolchain_initialize_depends(m, dependlibs, env) ==
    IF dependlibs = <<>> THEN m
    ELSE LET self == m.tc
             lib == Head(dependlibs)
             testpaths == <<join(L_dotdot, lib), join(L_dotdot, lib \o L_us_lib)>>
             found == {i \in 1..2 :
                          joinAll(<<testpaths[i], lib, lib \o L_dot_h>>) \in env.files}
         IN  IF found = {}
             THEN Exit(m, "Unable to locate dependent lib: ", lib)
             ELSE LET first == testpaths[CHOOSE i \in found : \A j \in found : i <= j]
                      testpath == IF self.subninja # <<>>
                                  THEN join(split(self.subninja)[1], split(first)[2])
                                  ELSE first
                  IN  Toolchain_initialize_depends(
                          [m EXCEPT !.tc.depend_includepaths = Append(@, testpath),
                                    !.tc.depend_libpaths = IF self.subninja = <<>>
                                                           THEN Append(@, testpath) ELSE @],
                          Tail(dependlibs), env)

\* Toolchain.parse_default_variables, XCode.parse_default_variables; variables
\* is the dict built by Generator.__init__
Toolchain_parse_default_variables(self, variables) ==
    LET flag(key, old) == IF hasattr(variables, key) THEN get_boolean_flag(variables[key]) ELSE old
        own == [self EXCEPT
            !.build_monolithic = flag("monolithic", @),
            !.build_coverage = flag("coverage", @),
            !.support_lua = flag("support_lua", @),
            !.internal_deps = flag("internal_deps", @)]
        xkeys == {"deploymenttarget", "organisation", "bundleidentifier", "provisioning"}
    IN  IF DOMAIN variables = {} THEN self
        ELSE IF self.xcode = NoObject THEN own
        ELSE [own EXCEPT !.xcode =
                 [k \in DOMAIN variables \cap xkeys |-> variables[k]] @@ @]

\* Android.parse_prefs
Android_parse_prefs(self, prefs) ==
    IF ~hasattr(prefs, "android") THEN self
    ELSE LET p == prefs.android
             attr == [ndkpath |-> "ndkpath", sdkpath |-> "sdkpath",
                      platformversion |-> "platformversion",
                      gccversion |-> "gcc_toolchainversion", javasdk |-> "javasdk"]
         IN  [a \in {attr[k] : k \in DOMAIN p \cap DOMAIN attr} |->
                 p[CHOOSE k \in DOMAIN p \cap DOMAIN attr : attr[k] = a]] @@ self

\* XCode.parse_prefs
XCode_parse_prefs(self, prefs) ==
    LET keys == {"deploymenttarget", "organisation", "bundleidentifier", "provisioning"}
        take(p) == [k \in DOMAIN p \cap keys |-> p[k]] @@ self
    IN  IF is_ios(self.target) /\ hasattr(prefs, "ios") THEN take(prefs.ios)
        ELSE IF is_macos(self.target) /\ hasattr(prefs, "macos") THEN take(prefs.macos)
        ELSE self

\* Toolchain.parse_prefs as it would be if a preferences file could set a
\* switch but not clear one that a variable has set
Toolchain_parse_prefs_Sticky(self, prefs) ==
    LET flag(key, old) == IF hasattr(prefs, key) THEN old \/ get_boolean_flag(prefs[key]) ELSE old
    IN  [self EXCEPT
            !.build_monolithic = flag("monolithic", @),
            !.build_coverage = flag("coverage", @),
            !.support_lua = flag("support_lua", @),
            !.python = IF hasattr(prefs, "python") THEN prefs.python ELSE @,
            !.android = IF @ # NoObject THEN Android_parse_prefs(@, prefs) ELSE @,
            !.xcode = IF @ # NoObject THEN XCode_parse_prefs(@, prefs) ELSE @]

\* Toolchain.parse_prefs
Toolchain_parse_prefs(self, prefs) ==
    LET flag(key, old) == IF hasattr(prefs, key) THEN get_boolean_flag(prefs[key]) ELSE old
    IN  [self EXCEPT
            !.build_monolithic = flag("monolithic", @),
            !.build_coverage = flag("coverage", @),
            !.support_lua = flag("support_lua", @),
            !.python = IF hasattr(prefs, "python") THEN prefs.python ELSE @,
            !.android = IF @ # NoObject THEN Android_parse_prefs(@, prefs) ELSE @,
            !.xcode = IF @ # NoObject THEN XCode_parse_prefs(@, prefs) ELSE @]

\* the "toolchain" preference of ClangToolchain.parse_prefs and GCCToolchain.parse_prefs
BinDirectory(path) == IF split(path)[2] # L_bin THEN join(path, L_bin) ELSE path

\* ClangToolchain.parse_prefs
ClangToolchain_parse_prefs(self, prefs) ==
    LET base == Toolchain_parse_prefs(self, prefs)
        clang == IF hasattr(prefs, "clang")
                 THEN [base EXCEPT
                          !.toolchain = IF hasattr(prefs.clang, "toolchain")
                                        THEN BinDirectory(prefs.clang.toolchain) ELSE @,
                          !.archiver = IF hasattr(prefs.clang, "archiver")
                                       THEN prefs.clang.archiver ELSE @]
                 ELSE base
        deploy(p) == IF hasattr(p, "deploymenttarget")
                     THEN SetAttrs(clang, [deploymenttarget |-> p.deploymenttarget])
                     ELSE clang
    IN  IF is_ios(self.target) /\ hasattr(prefs, "ios") THEN deploy(prefs.ios)
        ELSE IF is_macos(self.target) /\ hasattr(prefs, "macos") THEN deploy(prefs.macos)
        ELSE clang

\* GCCToolchain.parse_prefs
GCCToolchain_parse_prefs(self, prefs) ==
    LET base == Toolchain_parse_prefs(self, prefs)
    IN  IF hasattr(prefs, "gcc") /\ hasattr(prefs.gcc, "toolchain")
        THEN [base EXCEPT !.toolchain = BinDirectory(prefs.gcc.toolchain)]
        ELSE base

\* MSVCToolchain.parse_prefs
MSVCToolchain_parse_prefs(self, prefs) ==
    LET base == Toolchain_parse_prefs(self, prefs)
    IN  IF hasattr(prefs, "msvc")
        THEN [base EXCEPT
                 !.sdkpath = IF hasattr(prefs.msvc, "sdkpath") THEN prefs.msvc.sdkpath ELSE @,
                 !.toolchain = IF hasattr(prefs.msvc, "toolchain")
                               THEN prefs.msvc.toolchain ELSE @]
        ELSE base

\* the parse_prefs of the toolchain's class
parse_prefs(self, prefs) ==
    IF self.name = "clang" THEN ClangToolchain_parse_prefs(self, prefs)
    ELSE IF self.name = "gcc" THEN GCCToolchain_parse_prefs(self, prefs)
    ELSE MSVCToolchain_parse_prefs(self, prefs)

\* Toolchain.read_build_prefs, read_prefs: env.prefs lists the parsed contents
\* of those of build.json and build/ninja/build.json that exist, in this order
RECURSIVE Toolchain_read_build_prefs(_, _)
Toolchain_read_build_prefs(self, prefs) ==
    IF prefs = <<>> THEN self
    ELSE Toolchain_read_build_prefs(parse_prefs(self, Head(prefs)), Tail(prefs))

\* Toolchain.prefix_includepath
Toolchain_prefix_includepath(self, path) ==
    IF isabs(path) \/ self.subninja = <<>> THEN path
    ELSE IF path = L_dot THEN self.subninja
    ELSE join(self.subninja, path)

\* Toolchain.prefix_includepaths
Toolchain_prefix_includepaths(self, includepaths) ==
    [i \in 1..Len(includepaths) |-> Toolchain_prefix_includepath(self, includepaths[i])]

----------------------------------------------------------------------------
(* the target helpers' build_toolchain *)

\* Android.build_toolchain.  env.buildtools is os.listdir(<sdk>/build-tools)
\* restricted to directories, NoneList where the directory does not exist;
\* with at most one entry the version sort leaves the list as it is
Android_build_toolchain(m, env) ==
    LET self == m.tc.android
        buildtools_path == join(self.sdkpath, <<"b","u","i","l","d","-","t","o","o","l","s">>)
        tools == <<"t","o","o","l","s">>
        dx == <<"d","x">>
        zipalign == <<"z","i","p","a","l","i","g","n">>
        newest == join(buildtools_path, env.buildtools[Len(env.buildtools)])
        dex == IF is_windows(self.host) THEN join(newest, dx \o <<".","b","a","t">>)
               ELSE join(newest, dx \o self.exe_suffix)
        javabin(tool) == IF self.javasdk # <<>> THEN joinAll(<<self.javasdk, L_bin, tool>>) ELSE tool
    IN  IF env.buildtools = NoneList THEN Raise(m, "OSError", buildtools_path)
        ELSE IF env.buildtools = <<>> THEN Raise(m, "IndexError", buildtools_path)
        ELSE [m EXCEPT !.tc.android = SetAttrs(self, [
                 buildtools_path |-> newest,
                 android_jar |-> joinAll(<<self.sdkpath, <<"p","l","a","t","f","o","r","m","s">>,
                                           <<"a","n","d","r","o","i","d","-">> \o self.platformversion,
                                           <<"a","n","d","r","o","i","d",".","j","a","r">>>>),
                 javac |-> javabin(<<"j","a","v","a","c">>),
                 jarsigner |-> javabin(<<"j","a","r","s","i","g","n","e","r">>),
                 dex |-> IF dex \in env.files THEN dex
                         ELSE joinAll(<<self.sdkpath, tools, dx \o self.exe_suffix>>),
                 aapt |-> join(newest, <<"a","a","p","t">> \o self.exe_suffix),
                 zipalign |-> IF join(newest, zipalign \o self.exe_suffix) \in env.files
                              THEN join(newest, zipalign \o self.exe_suffix)
                              ELSE joinAll(<<self.sdkpath, tools, zipalign \o self.exe_suffix>>)])]

\* what `xcrun --sdk <sdk> ...` prints, stripped
xcrun(sdk, tool) == "/Applications/Xcode.app/" \o sdk \o "/" \o tool

\* the localpath of XCode.build_toolchain and ClangToolchain.build_xcode_toolchain
XcodeLocalPath(sdk) ==
    xcrun(sdk, "platform")
        \o "/Developer/usr/bin:/Applications/Xcode.app/Contents/Developer/usr/bin:/usr/bin:/bin:/usr/sbin:/sbin"

\* the sdk name chosen by XCode.build_toolchain and ClangToolchain.build_xcode_toolchain
XcodeSdk(target) == IF is_macos(target) THEN "macosx" ELSE "iphoneos"

\* XCode.build_toolchain; env.xcrun says whether xcrun can be run
XCode_build_toolchain(m, env) ==
    LET self == m.tc.xcode
        sdk == XcodeSdk(self.target)
        tool(name) == "PATH=" \o XcodeLocalPath(sdk) \o " " \o xcrun(sdk, name)
    IN  IF ~env.xcrun THEN Raise(m, "OSError", "xcrun")
        ELSE [m EXCEPT !.tc.xcode = SetAttrs(self, [
                 plist |-> tool("plutil"),
                 xcassets |-> tool("actool"),
                 xib |-> tool("ibtool"),
                 dsymutil |-> tool("dsymutil")])]

\* Toolchain.build_toolchain
Toolchain_build_toolchain(m, env) ==
    LET a == IF m.tc.android # NoObject THEN Android_build_toolchain(m, env) ELSE m
    IN  IF a.status = "ok" /\ a.tc.xcode # NoObject THEN XCode_build_toolchain(a, env) ELSE a

----------------------------------------------------------------------------
(* clang.py: ClangToolchain.initialize and build_toolchain *)

\* str.upper() for the characters of project names
AsciiChars == UNION {Range(AsciiRuns[r][2]) : r \in 1..Len(AsciiRuns)}
Chr(n) == CHOOSE c \in AsciiChars : Ord(c) = n
UpperChar(c, n) == IF n \in 97..122 THEN Chr(n - 32) ELSE c
Upper(s) == [i \in 1..Len(s) |-> UpperChar(s[i], Ord(s[i]))]

\* os.environ.get(key) or default
EnvOr(env, key, default) ==
    IF hasattr(env.environ, key) /\ env.environ[key] # "" THEN env.environ[key] ELSE default

\* self.toolchain += os.sep unless it is empty or already ends with a separator
WithSeparator(toolchain) ==
    IF toolchain # <<>> /\ ~EndsWith(toolchain, <<"/">>) /\ ~EndsWith(toolchain, <<"\\">>)
    THEN toolchain \o <<"/">> ELSE toolchain

\* the builders every backend registers, and the Apple ones of ClangToolchain
CommonBuilders ==
    (L_c :> "builder_cc") @@ (L_cc :> "builder_cxx") @@ (L_cpp :> "builder_cxx")
    @@ (L_lib :> "builder_lib") @@ (L_sharedlib :> "builder_sharedlib")
    @@ (L_bin :> "builder_bin")

MulticopyBuilders ==
    (L_multilib :> "builder_multicopy") @@ (L_multisharedlib :> "builder_multicopy")
    @@ (L_multibin :> "builder_multicopy")

AppleBuilders ==
    (L_m :> "builder_cm") @@ (L_multilib :> "builder_apple_multilib")
    @@ (L_multisharedlib :> "builder_apple_multisharedlib")
    @@ (L_multibin :> "builder_apple_multibin")

\* ClangToolchain.build_windows_toolchain
ClangToolchain_build_windows_toolchain(self) == [self EXCEPT
    !.cflags = @ \o <<"-U__STRICT_ANSI__", "-Wno-reserved-id-macro">>,
    !.oslibs = <<"kernel32", "user32", "shell32", "advapi32">>]

\* ClangToolchain.build_android_toolchain
ClangToolchain_build_android_toolchain(m) ==
    LET self == m.tc
        ndk == <<"$","n","d","k">>
        sources == <<"s","o","u","r","c","e","s">>
    IN  IF ~hasattr(self.android, "hostarchname")
        THEN Raise(m, "AttributeError", "hostarchname")
        ELSE [m EXCEPT !.tc = [self EXCEPT
            !.archiver = "ar",
            !.cflags = @ \o <<"-fpic", "-ffunction-sections", "-funwind-tables",
                             "-fstack-protector", "-fomit-frame-pointer",
                             "-no-canonical-prefixes", "-Wa,--noexecstack">>,
            !.linkflags = @ \o <<"-no-canonical-prefixes", "-Wl,--no-undefined",
                                "-Wl,-z,noexecstack", "-Wl,-z,relro", "-Wl,-z,now">>,
            !.includepaths = @ \o
                <<joinAll(<<ndk, sources, L_android,
                            <<"n","a","t","i","v","e","_","a","p","p","_","g","l","u","e">>>>),
                  joinAll(<<ndk, sources, L_android,
                            <<"c","p","u","f","e","a","t","u","r","e","s">>>>)>>,
            !.oslibs = Append(@, "log"),
            !.toolchain = joinAll(<<ndk, <<"t","o","o","l","c","h","a","i","n","s">>,
                                    <<"l","l","v","m">>, <<"p","r","e","b","u","i","l","t">>,
                                    self.android.hostarchname, L_bin, <<>>>>)]]

\* ClangToolchain.build_xcode_toolchain
ClangToolchain_build_xcode_toolchain(m, env) ==
    LET self == m.tc
        sdk == XcodeSdk(self.target)
        minversion == (IF is_macos(self.target) THEN "-mmacosx-version-min="
                       ELSE "-miphoneos-version-min=") \o self.deploymenttarget
        deploytarget == (IF is_macos(self.target) THEN "MACOSX_DEPLOYMENT_TARGET="
                         ELSE "IPHONEOS_DEPLOYMENT_TARGET=") \o self.deploymenttarget
        sdkflags == <<"-fasm-blocks", minversion, "-isysroot", "$sysroot">>
        cflags == self.cflags \o sdkflags \o <<"-fembed-bitcode-marker">>
        ccompiler == "PATH=" \o XcodeLocalPath(sdk) \o " " \o xcrun(sdk, "clang")
    IN  IF ~env.xcrun THEN Raise(m, "OSError", "xcrun")
        ELSE [m EXCEPT !.tc = SetAttrs([self EXCEPT
            !.cflags = cflags \o <<"-x", "c">>,
            !.cxxflags = @ \o sdkflags \o <<"-x", "c++">>,
            !.arflags = @ \o <<"-static", "-no_warning_for_no_symbols">>,
            !.linkflags = @ \o <<"-isysroot", "$sysroot">>,
            !.sysroot = xcrun(sdk, "sdk"),
            !.ccompiler = ccompiler,
            !.archiver = "PATH=" \o XcodeLocalPath(sdk) \o " " \o xcrun(sdk, "libtool"),
            !.linker = deploytarget \o " " \o ccompiler,
            !.mflags = @ \o cflags \o <<"-fobjc-arc", "-fno-objc-exceptions", "-x", "objective-c">>,
            !.frameworks = IF is_macos(self.target) THEN <<"Cocoa", "CoreFoundation">>
                           ELSE <<"CoreGraphics", "UIKit", "Foundation">>],
            [lipo |-> "PATH=" \o XcodeLocalPath(sdk) \o " " \o xcrun(sdk, "lipo")])]

\* ClangToolchain.build_toolchain
ClangToolchain_build_toolchain(m, env) ==
    LET helpers == Toolchain_build_toolchain(m, env)
        built == IF helpers.status # "ok" THEN helpers
                 ELSE IF is_windows(m.tc.target)
                 THEN [helpers EXCEPT !.tc = ClangToolchain_build_windows_toolchain(@)]
                 ELSE IF is_android(m.tc.target) THEN ClangToolchain_build_android_toolchain(helpers)
                 ELSE IF is_macos(m.tc.target) \/ is_ios(m.tc.target)
                 THEN ClangToolchain_build_xcode_toolchain(helpers, env)
                 ELSE helpers
    IN  IF built.status # "ok" THEN built
        ELSE [built EXCEPT !.tc.toolchain = WithSeparator(@)]

\* ClangToolchain.initialize
ClangToolchain_initialize(m, project, archs, configs, includepaths, dependlibs, libpaths, variables, subninja, env) ==
    LET target == m.tc.target
        windows == is_windows(target)
        apple == is_macos(target) \/ is_ios(target)
        gnu == is_linux(target) \/ is_bsd(target) \/ is_raspberrypi(target)
        cwarnflags == <<"-W", "-Werror", "-pedantic", "-Wall", "-Weverything", "-Wno-padded",
                        "-Wno-documentation-unknown-command", "-Wno-implicit-fallthrough",
                        "-Wno-static-in-inline", "-Wno-reserved-id-macro">>
        defaults == SetAttrs(m.tc, [
            toolchain    |-> <<>>,
            sdkpath      |-> <<>>,
            includepaths |-> <<>>,
            libpaths     |-> libpaths,
            ccompiler    |-> EnvOr(env, "CC", "clang"),
            cxxcompiler  |-> EnvOr(env, "CXX", "clang++"),
            archiver     |-> EnvOr(env, "AR", IF windows THEN "llvm-ar" ELSE "ar"),
            linker       |-> EnvOr(env, "CC", IF windows THEN "lld-link" ELSE "clang"),
            cxxlinker    |-> EnvOr(env, "CXX", IF windows THEN "lld-link" ELSE "clang++"),
            sysroot      |-> "",
            cflags       |-> <<"-D" \o ToStr(Upper(project)) \o "_COMPILE=1",
                               "-funit-at-a-time", "-fstrict-aliasing", "-fvisibility=hidden",
                               "-fno-stack-protector", "-fomit-frame-pointer", "-fno-math-errno",
                               "-ffinite-math-only", "-funsafe-math-optimizations",
                               "-fno-trapping-math", "-ffast-math">>,
            cwarnflags   |-> cwarnflags,
            cmoreflags   |-> <<>>,
            mflags       |-> <<>>,
            arflags      |-> <<>>,
            linkflags    |-> <<>>,
            oslibs       |-> <<>>,
            frameworks   |-> <<>>])
        deployed == IF is_macos(target) THEN SetAttrs(defaults, [deploymenttarget |-> "10.7"])
                    ELSE IF is_ios(target) THEN SetAttrs(defaults, [deploymenttarget |-> "9.0"])
                    ELSE defaults
        prepared == Toolchain_initialize_toolchain(
                        Toolchain_initialize_project(
                            Toolchain_initialize_configs(
                                Toolchain_initialize_archs(
                                    Toolchain_initialize_subninja(deployed, subninja),
                                    archs, env),
                                configs),
                            project),
                        env)
        depended == Toolchain_initialize_depends([m EXCEPT !.tc = prepared], dependlibs, env)
        preferred == Toolchain_read_build_prefs(
                         Toolchain_parse_default_variables(depended.tc, variables), env.prefs)
        nowarning == hasattr(variables, "nowarning") /\ variables.nowarning
        cflags == preferred.cflags
                  \o (IF gnu THEN <<"-D_GNU_SOURCE=1">> ELSE <<>>)
                  \o (IF preferred.build_monolithic THEN <<"-DBUILD_MONOLITHIC=1">> ELSE <<>>)
                  \o (IF preferred.build_coverage THEN <<"--coverage">> ELSE <<>>)
                  \o (IF nowarning THEN <<"-w">> ELSE cwarnflags)
        flagged == SetAttrs([preferred EXCEPT
            !.cflags = cflags \o <<"-std=c11">>,
            !.linkflags = @ \o (IF gnu THEN <<"-pthread">> ELSE <<>>)
                            \o (IF ~windows THEN <<"-fomit-frame-pointer">> ELSE <<>>)
                            \o (IF preferred.build_coverage THEN <<"--coverage">> ELSE <<>>),
            !.oslibs = @ \o (IF gnu THEN <<"m">> ELSE <<>>)
                         \o (IF is_linux(target) \/ is_raspberrypi(target) THEN <<"dl">> ELSE <<>>)
                         \o (IF is_bsd(target) THEN <<"execinfo">> ELSE <<>>),
            !.includepaths = Toolchain_prefix_includepaths(preferred, Append(includepaths, L_dot)),
            !.objext = L_dot_o,
            !.builders = IF apple THEN AppleBuilders @@ CommonBuilders
                         ELSE MulticopyBuilders @@ CommonBuilders],
            [cxxflags |-> cflags \o (IF apple THEN <<"-std=c++14", "-stdlib=libc++">>
                                     ELSE <<"-std=gnu++14">>)])
    IN  IF depended.status # "ok" THEN depended
        ELSE ClangToolchain_build_toolchain([depended EXCEPT !.tc = flagged], env)

----------------------------------------------------------------------------
(* gcc.py: GCCToolchain.initialize *)

\* GCCToolchain.build_windows_toolchain
GCCToolchain_build_windows_toolchain(self) == [self EXCEPT
    !.cflags = Append(@, "-U__STRICT_ANSI__"),
    !.oslibs = <<"kernel32", "user32", "shell32", "advapi32">>]

\* GCCToolchain.build_target_toolchain
GCCToolchain_build_target_toolchain(self, target) ==
    LET built == IF is_windows(target) THEN GCCToolchain_build_windows_toolchain(self) ELSE self
    IN  [built EXCEPT !.toolchain = WithSeparator(@)]

\* GCCToolchain.initialize
GCCToolchain_initialize(m, project, archs, configs, includepaths, dependlibs, libpaths, variables, subninja, env) ==
    LET target == m.tc.target
        gnu == is_linux(target) \/ is_bsd(target) \/ is_raspberrypi(target)
        cwarnflags == <<"-Wextra", "-Wall", "-Werror">>
        defaults == SetAttrs(m.tc, [
            toolchain    |-> <<>>,
            includepaths |-> <<>>,
            libpaths     |-> libpaths,
            ccompiler    |-> "gcc",
            cxxcompiler  |-> "g++",
            archiver     |-> "ar",
            linker       |-> "gcc",
            cxxlinker    |-> "g++",
            cflags       |-> <<"-D" \o ToStr(Upper(project)) \o "_COMPILE=1",
                               "-funit-at-a-time", "-fstrict-aliasing", "-fno-math-errno",
                               "-ffinite-math-only", "-funsafe-math-optimizations",
                               "-fno-trapping-math", "-ffast-math">>,
            cwarnflags   |-> cwarnflags,
            cmoreflags   |-> <<>>,
            mflags       |-> <<>>,
            arflags      |-> <<>>,
            linkflags    |-> <<>>,
            oslibs       |-> <<>>])
        prepared == Toolchain_initialize_toolchain(
                        Toolchain_initialize_project(
                            Toolchain_initialize_configs(
                                Toolchain_initialize_archs(
                                    Toolchain_initialize_subninja(defaults, subninja),
                                    archs, env),
                                configs),
                            project),
                        env)
        depended == Toolchain_initialize_depends([m EXCEPT !.tc = prepared], dependlibs, env)
        preferred == Toolchain_read_build_prefs(
                         Toolchain_parse_default_variables(depended.tc, variables), env.prefs)
        nowarning == hasattr(variables, "nowarning") /\ variables.nowarning
        cflags == preferred.cflags
                  \o (IF gnu THEN <<"-D_GNU_SOURCE=1">> ELSE <<>>)
                  \o (IF preferred.build_monolithic THEN <<"-DBUILD_MONOLITHIC=1">> ELSE <<>>)
                  \o (IF preferred.build_coverage THEN <<"--coverage">> ELSE <<>>)
                  \o (IF nowarning THEN <<>> ELSE cwarnflags)
        flagged == SetAttrs([preferred EXCEPT
            !.cflags = cflags \o <<"-std=c11">>,
            !.linkflags = @ \o (IF gnu THEN <<"-pthread">> ELSE <<>>)
                            \o (IF preferred.build_coverage THEN <<"--coverage">> ELSE <<>>),
            !.oslibs = @ \o (IF gnu THEN <<"m">> ELSE <<>>)
                         \o (IF is_linux(target) \/ is_raspberrypi(target) THEN <<"dl">> ELSE <<>>)
                         \o (IF is_bsd(target) THEN <<"execinfo">> ELSE <<>>),
            !.includepaths = Toolchain_prefix_includepaths(preferred, Append(includepaths, L_dot)),
            !.objext = L_dot_o,
            !.builders = MulticopyBuilders @@ CommonBuilders],
            [cxxflags |-> cflags \o (IF is_macos(target) \/ is_ios(target)
                                     THEN <<"-std=c++14", "-stdlib=libc++">>
                                     ELSE <<"-std=gnu++14">>)])
    IN  IF depended.status # "ok" THEN depended
        ELSE [depended EXCEPT !.tc = GCCToolchain_build_target_toolchain(flagged, target)]

----------------------------------------------------------------------------
(* msvc.py: MSVCToolchain.initialize and build_toolchain *)

\* the versions probed by MSVCToolchain.build_toolchain, newest first
MsvcVersions == <<
    <<"1","5",".","0">>, <<"1","4",".","0">>, <<"1","3",".","0">>,
    <<"1","2",".","0">>, <<"1","1",".","0">>, <<"1","0",".","0">>>>

\* the number of registry keys probed for each toolchain version
MsvcKeys == 8

\* the Windows SDK versions probed, newest first
SdkVersions == <<<<"v","1","0",".","0">>, <<"v","8",".","1">>>>

\* the number of registry keys probed for each SDK version
SdkKeys == 4

\* the first probe, in the order of the two nested loops, that is in hits;
\* <<0, 0>> when there is none
FirstProbe(hits) ==
    IF hits = {} THEN <<0, 0>>
    ELSE CHOOSE h \in hits : \A g \in hits : h[1] < g[1] \/ (h[1] = g[1] /\ h[2] <= g[2])

\* MSVCToolchain.build_toolchain, the toolchain loop.  env.reg.runs says
\* whether `reg` can be executed at all (otherwise every call raises OSError,
\* which the bare except swallows); env.reg.vc holds the <<version, key>>
\* probes answered with a non-empty value env.reg.vcpath; env.msvctools is
\* os.listdir(<vcpath>/VC/Tools/MSVC) restricted to directories, NoneList
\* where the directory does not exist (with at most one entry the
\* StrictVersion sort leaves the list as it is)
MSVCToolchain_probe_toolchain(m, env) ==
    LET self == m.tc
        hit == FirstProbe(IF env.reg.runs THEN env.reg.vc ELSE {})
        version == MsvcVersions[hit[1]]
        tools_basepath == joinAll(<<env.reg.vcpath, <<"V","C">>, <<"T","o","o","l","s">>,
                                    <<"M","S","V","C">>>>)
        toolchain == IF version = MsvcVersions[1]
                     THEN join(tools_basepath, env.msvctools[Len(env.msvctools)])
                     ELSE env.reg.vcpath
    IN  IF self.toolchain # <<>> \/ hit = <<0, 0>> THEN m
        ELSE IF version = MsvcVersions[1] /\ env.msvctools = NoneList
        THEN Raise(m, "OSError", tools_basepath)
        ELSE IF version = MsvcVersions[1] /\ env.msvctools = <<>>
        THEN Raise(m, "IndexError", tools_basepath)
        ELSE [m EXCEPT !.tc = SetAttrs(self, [
                 includepaths |-> Append(self.includepaths,
                                         join(toolchain, <<"i","n","c","l","u","d","e">>)),
                 toolchain |-> toolchain,
                 toolchain_version |-> version])]

\* MSVCToolchain.build_toolchain, the SDK loop.  env.reg.sdk holds the
\* <<version, key>> probes whose InstallationFolder is answered with
\* env.reg.sdkroot, env.reg.product those whose ProductVersion is answered
\* with env.reg.sdkproduct; only CalledProcessError is caught here
MSVCToolchain_probe_sdk(m, env) ==
    LET self == m.tc
        include == <<"i","n","c","l","u","d","e">>
        usable == {h \in env.reg.sdk : h[1] = 1 => h \in env.reg.product}
        hit == FirstProbe(usable)
        v10 == hit[1] = 1
        versioned == join(include, env.reg.sdkproduct)
        dotzero == env.reg.sdkproduct \o <<".","0">>
        widen == join(env.reg.sdkroot, versioned) \notin env.dirs
                 /\ join(env.reg.sdkroot, join(include, dotzero)) \in env.dirs
        sdkversionpath == IF widen THEN dotzero ELSE env.reg.sdkproduct
        include_path == IF v10 THEN join(include, sdkversionpath) ELSE include
        sub(name) == joinAll(<<env.reg.sdkroot, include_path, name>>)
        found == SetAttrs(self, [
            includepaths |-> self.includepaths
                \o <<sub(<<"s","h","a","r","e","d">>), sub(<<"u","m">>),
                     sub(<<"w","i","n","r","t">>)>>
                \o (IF v10 THEN <<sub(<<"u","c","r","t">>)>> ELSE <<>>),
            sdkpath |-> env.reg.sdkroot,
            sdkversion |-> SdkVersions[hit[1]]])
    IN  IF self.sdkpath # <<>> THEN m
        ELSE IF ~env.reg.runs THEN Raise(m, "OSError", "reg")
        ELSE IF hit = <<0, 0>> THEN m
        ELSE [m EXCEPT !.tc = IF v10 THEN SetAttrs(found, [sdkversionpath |-> sdkversionpath])
                               ELSE found]

\* MSVCToolchain.build_toolchain
MSVCToolchain_build_toolchain(m, env) ==
    LET tools == MSVCToolchain_probe_toolchain(m, env)
        sdk == IF tools.status = "ok" THEN MSVCToolchain_probe_sdk(tools, env) ELSE tools
    IN  IF sdk.status # "ok" THEN sdk
        ELSE [sdk EXCEPT !.tc.toolchain = WithSeparator(@)]

\* MSVCToolchain.initialize
MSVCToolchain_initialize(m, project, archs, configs, includepaths, dependlibs, libpaths, variables, subninja, env) ==
    LET cwarnflags == <<"/W3", "/WX">>
        defaults == SetAttrs(m.tc, [
            sdkpath      |-> <<>>,
            toolchain    |-> <<>>,
            includepaths |-> <<>>,
            libpaths     |-> libpaths,
            ccompiler    |-> "cl",
            cxxcompiler  |-> "cl",
            archiver     |-> "lib",
            linker       |-> "link",
            dller        |-> "dll",
            cflags       |-> <<"/D", "\"" \o ToStr(Upper(project)) \o "_COMPILE=1\"",
                               "/D", "\"_UNICODE\"", "/D", "\"UNICODE\"", "/Zi", "/Oi", "/Oy-",
                               "/GS-", "/Gy-", "/Qpar-", "/fp:fast", "/fp:except-",
                               "/Zc:forScope", "/Zc:wchar_t", "/GR-", "/openmp-">>,
            cwarnflags   |-> cwarnflags,
            cmoreflags   |-> <<>>,
            arflags      |-> <<"/ignore:4221">>,
            linkflags    |-> <<"/DEBUG">>,
            oslibs       |-> <<"kernel32", "user32", "shell32", "advapi32">>])
        prepared == Toolchain_initialize_toolchain(
                        Toolchain_initialize_project(
                            Toolchain_initialize_configs(
                                Toolchain_initialize_archs(
                                    Toolchain_initialize_subninja(defaults, subninja),
                                    archs, env),
                                configs),
                            project),
                        env)
        depended == Toolchain_initialize_depends([m EXCEPT !.tc = prepared], dependlibs, env)
        preferred == Toolchain_read_build_prefs(
                         Toolchain_parse_default_variables(depended.tc, variables), env.prefs)
        nowarning == hasattr(variables, "nowarning") /\ variables.nowarning
        cflags == preferred.cflags
                  \o (IF preferred.build_monolithic THEN <<"/D", "\"BUILD_MONOLITHIC=1\"">> ELSE <<>>)
                  \o (IF nowarning THEN <<>> ELSE cwarnflags)
        flagged == SetAttrs([preferred EXCEPT
            !.cflags = cflags,
            !.includepaths = Toolchain_prefix_includepaths(preferred, Append(includepaths, L_dot)),
            !.objext = L_dot_obj,
            !.builders = MulticopyBuilders @@ CommonBuilders],
            [cxxflags |-> cflags])
    IN  IF depended.status # "ok" THEN depended
        ELSE MSVCToolchain_build_toolchain([depended EXCEPT !.tc = flagged], env)

----------------------------------------------------------------------------
(* flag derivation: clang.py, gcc.py, msvc.py make_* *)

\* Toolchain.path_escape
Toolchain_path_escape(self, path) ==
    IF is_windows(self.host) THEN "\"" \o ToStr(path) \o "\"" ELSE ToStr(path)

\* [prefix + f(x) for x in xs]
Prefixed(prefix, xs) == [i \in 1..Len(xs) |-> prefix \o xs[i]]

\* the escaped form of every path of a list
Escaped(self, paths) == [i \in 1..Len(paths) |-> Toolchain_path_escape(self, paths[i])]

\* Android.make_sysroot_path
Android_make_sysroot_path(self, arch) ==
    joinAll(<<self.ndkpath, <<"p","l","a","t","f","o","r","m","s">>,
              <<"a","n","d","r","o","i","d","-">> \o self.platformversion,
              <<"a","r","c","h","-">> \o self.archname[arch]>>)

\* Android.make_gcc_toolchain_path
Android_make_gcc_toolchain_path(self, arch) ==
    joinAll(<<self.ndkpath, <<"t","o","o","l","c","h","a","i","n","s">>,
              self.gcc_toolchainname[arch], <<"p","r","e","b","u","i","l","t">>,
              self.hostarchname>>)

\* Android.make_gcc_bin_path
Android_make_gcc_bin_path(self, arch) ==
    joinAll(<<Android_make_gcc_toolchain_path(self, arch), L_bin, self.gcc_toolchainprefix[arch]>>)

\* ClangToolchain.make_targetarchflags
ClangToolchain_make_targetarchflags(self, arch, targettype) ==
    LET t == self.target IN
    IF is_android(t)
    THEN (IF arch = L_x86
          THEN <<"-target", "i686-none-linux-android",
                 "-march=i686", "-mtune=intel", "-mssse3", "-mfpmath=sse", "-m32">>
          ELSE IF arch = L_x86_64
          THEN <<"-target", "x86_64-none-linux-android",
                 "-march=x86-64", "-msse4.2", "-mpopcnt", "-m64", "-mtune=intel">>
          ELSE IF arch = L_arm6
          THEN <<"-target", "armv5te-none-linux-androideabi",
                 "-march=armv5te", "-mtune=xscale", "-msoft-float", "-marm">>
          ELSE IF arch = L_arm7
          THEN <<"-target", "armv7-none-linux-androideabi",
                 "-march=armv7-a", "-mhard-float", "-mfpu=vfpv3-d16", "-mfpu=neon",
                 "-D_NDK_MATH_NO_SOFTFP=1", "-marm">>
          ELSE IF arch = L_arm64 THEN <<"-target", "aarch64-none-linux-android">>
          ELSE IF arch = L_mips THEN <<"-target", "mipsel-none-linux-android">>
          ELSE IF arch = L_mips64 THEN <<"-target", "mips64el-none-linux-android">>
          ELSE <<>>)
         \o <<"-gcc-toolchain", ToStr(Android_make_gcc_toolchain_path(self.android, arch))>>
    ELSE IF is_macos(t) \/ is_ios(t)
    THEN (IF arch = L_x86 THEN <<"-arch", "x86">>
          ELSE IF arch = L_x86_64 THEN <<"-arch", "x86_64">>
          ELSE IF arch = L_arm7 THEN <<"-arch", "armv7">>
          ELSE IF arch = L_arm64 THEN <<"-arch", "arm64">>
          ELSE <<>>)
    ELSE IF is_windows(t)
    THEN (IF arch = L_x86 THEN <<"-target", "x86-pc-windows-msvc">>
          ELSE IF arch = <<"x","6","4">> THEN <<"-target", "x86_64-pc-windows-msvc">>
          ELSE <<>>)
    ELSE (IF arch = L_x86 THEN <<"-m32">>
          ELSE IF arch = L_x86_64 THEN <<"-m64">>
          ELSE <<>>)

\* ClangToolchain.make_carchflags
ClangToolchain_make_carchflags(self, arch, targettype) ==
    (IF targettype = L_sharedlib
     THEN <<"-DBUILD_DYNAMIC_LINK=1">>
          \o (IF is_linux(self.target) \/ is_bsd(self.target) THEN <<"-fPIC">> ELSE <<>>)
     ELSE <<>>)
    \o ClangToolchain_make_targetarchflags(self, arch, targettype)

\* ClangToolchain.make_cconfigflags
ClangToolchain_make_cconfigflags(self, config, targettype) ==
    <<"-g">> \o
    (IF config = L_debug THEN <<"-DBUILD_DEBUG=1">>
     ELSE IF config = L_release THEN <<"-DBUILD_RELEASE=1", "-O3", "-funroll-loops">>
     ELSE IF config = L_profile THEN <<"-DBUILD_PROFILE=1", "-O3", "-funroll-loops">>
     ELSE IF config = L_deploy THEN <<"-DBUILD_DEPLOY=1", "-O3", "-funroll-loops">>
     ELSE <<>>)

\* GCCToolchain.make_targetarchflags
GCCToolchain_make_targetarchflags(self, arch, targettype) ==
    IF arch = L_x86 THEN <<"-m32">>
    ELSE IF arch = L_x86_64 THEN <<"-m64">>
    ELSE <<>>

\* GCCToolchain.make_carchflags
GCCToolchain_make_carchflags(self, arch, targettype) ==
    (IF targettype = L_sharedlib
     THEN <<"-DBUILD_DYNAMIC_LINK=1">> \o (IF is_linux(self.target) THEN <<"-fPIC">> ELSE <<>>)
     ELSE <<>>)
    \o GCCToolchain_make_targetarchflags(self, arch, targettype)

\* GCCToolchain.make_cconfigflags
GCCToolchain_make_cconfigflags(self, config, targettype) ==
    IF config = L_debug THEN <<"-DBUILD_DEBUG=1", "-g">>
    ELSE IF config = L_release THEN <<"-DBUILD_RELEASE=1", "-O3", "-g", "-funroll-loops">>
    ELSE IF config = L_profile THEN <<"-DBUILD_PROFILE=1", "-O3", "-g", "-funroll-loops">>
    ELSE IF config = L_deploy THEN <<"-DBUILD_DEPLOY=1", "-O3", "-g", "-funroll-loops">>
    ELSE <<>>

\* MSVCToolchain.make_carchflags as it would be if the dynamic-link define were
\* added outside the test of the target type
MSVCToolchain_make_carchflags_DefineAlways(self, arch, targettype) ==
    (IF targettype = L_sharedlib THEN <<"/MD">> ELSE <<"/MT">>)
    \o <<"/D", "\"BUILD_DYNAMIC_LINK=1\"">>
    \o (IF arch = L_x86 THEN <<"/arch:SSE2">> ELSE <<>>)

\* MSVCToolchain.make_carchflags
MSVCToolchain_make_carchflags(self, arch, targettype) ==
    (IF targettype = L_sharedlib THEN <<"/MD", "/D", "\"BUILD_DYNAMIC_LINK=1\"">> ELSE <<"/MT">>)
    \o (IF arch = L_x86 THEN <<"/arch:SSE2">> ELSE <<>>)

\* MSVCToolchain.make_cconfigflags
MSVCToolchain_make_cconfigflags(self, config, targettype) ==
    <<"/Gm-">> \o
    (IF config = L_debug THEN <<"/Od", "/D", "\"BUILD_DEBUG=1\"", "/GF-">>
     ELSE <<"/Ob2", "/Ot", "/GT", "/GL", "/GF">>
          \o (IF config = L_release THEN <<"/O2", "/D\"BUILD_RELEASE=1\"">>
              ELSE IF config = L_profile THEN <<"/Ox", "/D", "\"BUILD_PROFILE=1\"">>
              ELSE IF config = L_deploy THEN <<"/Ox", "/D", "\"BUILD_DEPLOY=1\"">>
              ELSE <<>>))

\* MSVCToolchain.make_arch_toolchain_path
MSVCToolchain_make_arch_toolchain_path(self, arch) ==
    LET HostX64 == <<"H","o","s","t","X","6","4">> IN
    IF self.toolchain_version = MsvcVersions[1] /\ arch = L_x86_64
    THEN joinAll(<<self.toolchain, L_bin, HostX64, <<"x","6","4","\\">>>>)
    ELSE IF self.toolchain_version = MsvcVersions[1] /\ arch = L_x86
    THEN joinAll(<<self.toolchain, L_bin, HostX64, <<"x","8","6","\\">>>>)
    ELSE IF arch = L_x86_64 THEN joinAll(<<self.toolchain, L_bin, <<"a","m","d","6","4","\\">>>>)
    ELSE join(self.toolchain, <<"b","i","n","\\">>)

\* make_carchflags of the toolchain's class
make_carchflags(self, arch, targettype) ==
    IF self.name = "clang" THEN ClangToolchain_make_carchflags(self, arch, targettype)
    ELSE IF self.name = "gcc" THEN GCCToolchain_make_carchflags(self, arch, targettype)
    ELSE MSVCToolchain_make_carchflags(self, arch, targettype)

\* make_cconfigflags of the toolchain's class
make_cconfigflags(self, config, targettype) ==
    IF self.name = "clang" THEN ClangToolchain_make_cconfigflags(self, config, targettype)
    ELSE IF self.name = "gcc" THEN GCCToolchain_make_cconfigflags(self, config, targettype)
    ELSE MSVCToolchain_make_cconfigflags(self, config, targettype)

\* make_includepaths of the toolchain's class
make_includepaths(self, includepaths) ==
    IF self.name = "clang" THEN Prefixed("-I", [i \in 1..Len(includepaths) |-> ToStr(includepaths[i])])
    ELSE IF self.name = "gcc"
    THEN Prefixed("-I", Escaped(self, Toolchain_prefix_includepaths(self, includepaths)))
    ELSE Prefixed("/I", Escaped(self, includepaths))

\* make_libpaths of the toolchain's class
make_libpaths(self, libpaths) ==
    IF self.name = "clang"
    THEN Prefixed(IF is_windows(self.target) THEN "/libpath:" ELSE "-L", Escaped(self, libpaths))
    ELSE IF self.name = "gcc" THEN Prefixed("-L", Escaped(self, libpaths))
    ELSE Prefixed("/LIBPATH:", Escaped(self, libpaths))

\* make_libs of the toolchain's class
make_libs(self, libs) ==
    IF self.name = "msvc" \/ (self.name = "clang" /\ is_windows(self.target))
    THEN [i \in 1..Len(libs) |-> libs[i] \o ".lib"]
    ELSE Prefixed("-l", libs)

\* ClangToolchain.make_linkarchflags
ClangToolchain_make_linkarchflags(self, arch, targettype, variables) ==
    LET t == self.target
        base == IF is_windows(t)
                THEN (IF arch = L_x86 THEN <<"/machine:x86">>
                      ELSE IF arch = L_x86_64 THEN <<"/machine:x64">>
                      ELSE <<>>)
                ELSE ClangToolchain_make_targetarchflags(self, arch, targettype)
                     \o (IF is_android(t) /\ arch = L_arm7
                         THEN <<"-Wl,--no-warn-mismatch", "-Wl,--fix-cortex-a8">> ELSE <<>>)
    IN  base \o (IF is_macos(t) /\ hasattr(variables, "support_lua") /\ variables.support_lua
                 THEN <<"-pagezero_size", "10000", "-image_base", "100000000">> ELSE <<>>)

\* ClangToolchain.make_linkconfigflags
ClangToolchain_make_linkconfigflags(self, config, targettype, variables) ==
    LET t == self.target IN
    (IF is_windows(t)
     THEN (IF config = L_debug THEN <<"/incremental", "/defaultlib:libcmtd">>
           ELSE <<"/incremental:no", "/opt:ref", "/opt:icf", "/defaultlib:libcmt">>)
     ELSE IF is_macos(t) \/ is_ios(t)
     THEN (IF targettype = L_sharedlib \/ targettype = L_multisharedlib
           THEN <<"-dynamiclib">> ELSE <<>>)
     ELSE (IF targettype = L_sharedlib THEN <<"-shared", "-fPIC">> ELSE <<>>))
    \o (IF config # L_debug /\ (targettype = L_bin \/ targettype = L_sharedlib)
        THEN <<"-flto">> ELSE <<>>)

\* ClangToolchain.make_linkarchlibs
ClangToolchain_make_linkarchlibs(self, arch, targettype) ==
    IF is_android(self.target)
    THEN (IF arch = L_arm7 THEN <<"m_hard">> ELSE <<"m">>) \o <<"gcc", "android">>
    ELSE <<>>

\* [os.path.join(libpath, tail) for libpath in extralibpaths]
JoinedEach(extralibpaths, tail) == [i \in 1..Len(extralibpaths) |-> join(extralibpaths[i], tail)]

\* ClangToolchain.make_configlibpaths
ClangToolchain_make_configlibpaths(self, config, arch, extralibpaths) ==
    LET perarch == ~is_macos(self.target) /\ ~is_ios(self.target)
        own == self.libpath
        extra == IF extralibpaths = NoneList THEN <<>> ELSE extralibpaths
    IN  make_libpaths(self,
            <<own, join(own, config)>>
            \o (IF perarch THEN <<join(own, arch), joinAll(<<own, config, arch>>)>> ELSE <<>>)
            \o JoinedEach(extra, own) \o JoinedEach(extra, join(own, config))
            \o (IF perarch
                THEN JoinedEach(extra, join(own, arch))
                     \o JoinedEach(extra, joinAll(<<own, config, arch>>))
                ELSE <<>>))

\* GCCToolchain.make_linkconfigflags
GCCToolchain_make_linkconfigflags(self, config, targettype) ==
    LET t == self.target IN
    IF is_windows(t)
    THEN (IF targettype = L_sharedlib THEN <<"-Xlinker", "/DLL">>
          ELSE IF targettype = L_bin THEN <<"-Xlinker", "/SUBSYSTEM:CONSOLE">>
          ELSE <<>>)
    ELSE IF is_macos(t) \/ is_ios(t)
    THEN (IF targettype = L_sharedlib \/ targettype = L_multisharedlib
          THEN <<"-dynamiclib">> ELSE <<>>)
    ELSE (IF targettype = L_sharedlib THEN <<"-shared">> ELSE <<>>)

\* the libpaths list common to GCCToolchain.make_configlibpaths and
\* MSVCToolchain.make_configlibpaths
PerArchLibpaths(self, config, arch, extralibpaths) ==
    LET own == self.libpath
        extra == IF extralibpaths = NoneList THEN <<>> ELSE extralibpaths
    IN  <<own, join(own, arch), join(own, config), joinAll(<<own, config, arch>>)>>
        \o JoinedEach(extra, own) \o JoinedEach(extra, join(own, arch))
        \o JoinedEach(extra, join(own, config)) \o JoinedEach(extra, joinAll(<<own, config, arch>>))

\* GCCToolchain.make_configlibpaths
GCCToolchain_make_configlibpaths(self, config, arch, extralibpaths) ==
    make_libpaths(self, PerArchLibpaths(self, config, arch, extralibpaths))

\* MSVCToolchain.make_linkarchflags and make_ararchflags
MSVCToolchain_make_linkarchflags(self, arch, targettype) ==
    IF arch = L_x86 THEN <<"/MACHINE:X86">>
    ELSE IF arch = L_x86_64 THEN <<"/MACHINE:X64">>
    ELSE <<>>

\* MSVCToolchain.make_arconfigflags
MSVCToolchain_make_arconfigflags(self, config, targettype) ==
    IF config # L_debug THEN <<"/LTCG">> ELSE <<>>

\* MSVCToolchain.make_linkconfigflags
MSVCToolchain_make_linkconfigflags(self, config, targettype) ==
    IF config = L_debug THEN <<"/INCREMENTAL">>
    ELSE <<"/LTCG", "/INCREMENTAL:NO", "/OPT:REF", "/OPT:ICF">>

\* MSVCToolchain.make_configlibpaths (reached only where toolchain_version and,
\* with an SDK path, sdkversion exist: MsvcMissing names what does not)
MSVCToolchain_make_configlibpaths(self, config, arch, extralibpaths) ==
    LET x86 == arch = L_x86
        v15 == self.toolchain_version = MsvcVersions[1]
        um == <<"u","m">>
        ucrt == <<"u","c","r","t">>
        bits == IF x86 THEN L_x86 ELSE <<"x","6","4">>
        sdklibs ==
            <<IF v15 THEN joinAll(<<self.toolchain, L_lib, bits>>)
              ELSE IF x86 THEN join(self.toolchain, L_lib)
              ELSE joinAll(<<self.toolchain, L_lib, L_amd64>>)>>
            \o (IF self.sdkversion = SdkVersions[2]
                THEN <<joinAll(<<self.sdkpath, L_lib, <<"w","i","n","v","6",".","3">>, um, bits>>)>>
                ELSE <<>>)
            \o (IF self.sdkversion = SdkVersions[1]
                THEN <<joinAll(<<self.sdkpath, L_lib, self.sdkversionpath, um, bits>>),
                       joinAll(<<self.sdkpath, L_lib, self.sdkversionpath, ucrt, bits>>)>>
                ELSE <<>>)
    IN  make_libpaths(self, PerArchLibpaths(self, config, arch, extralibpaths)
                            \o (IF self.sdkpath # <<>> THEN sdklibs ELSE <<>>))

\* the attribute an MSVC compile, archive or link builder reads without its
\* having been assigned ("" when there is none): make_arch_toolchain_path
\* reads toolchain_version, make_configlibpaths reads sdkversion
MsvcMissing(self, linking) ==
    IF ~hasattr(self, "toolchain_version") THEN "toolchain_version"
    ELSE IF linking /\ self.sdkpath # <<>> /\ ~hasattr(self, "sdkversion") THEN "sdkversion"
    ELSE IF linking /\ self.sdkpath # <<>> /\ self.sdkversion = SdkVersions[1]
            /\ ~hasattr(self, "sdkversionpath") THEN "sdkversionpath"
    ELSE ""

----------------------------------------------------------------------------
(* syntax.Writer, as the callers use it: every call appends one statement to *)
(* build.ninja, and build returns the list of its outputs                   *)

\* Writer.variable
writer_variable(m, key, value) ==
    [m EXCEPT !.out = Append(@, [kind |-> "variable", key |-> key, value |-> value])]

\* Writer.variable for each <<key, value>> of a list, in order
RECURSIVE writer_variables(_, _)
writer_variables(m, pairs) ==
    IF pairs = <<>> THEN m
    ELSE writer_variables(writer_variable(m, pairs[1][1], pairs[1][2]), Tail(pairs))

\* Writer.rule and Writer.pool, for each name of a list, in order
RECURSIVE writer_rules(_, _)
writer_rules(m, names) ==
    IF names = <<>> THEN m
    ELSE writer_rules([m EXCEPT !.out = Append(@, [kind |-> "rule", name |-> Head(names)])],
                      Tail(names))

\* Writer.build; m is the state after the statement, ret the returned outputs
writer_build(m, outputs, rule, inputs, implicit, order_only, variables) ==
    [m |-> [m EXCEPT !.out = Append(@, [kind |-> "build", outputs |-> outputs, rule |-> rule,
                                        inputs |-> inputs, implicit |-> implicit,
                                        order_only |-> order_only, variables |-> variables])],
     ret |-> outputs]

\* the outcome of a call that raised: no return value
Raised(m, exception, what) == [m |-> Raise(m, exception, what), ret |-> <<>>]

\* the build statements of build.ninja
Edges(statements) == SelectSeq(statements, LAMBDA s : s.kind = "build")

----------------------------------------------------------------------------
(* toolchain.py: mkdir, copy, builder_multicopy *)

\* Toolchain.mkdir as it would be without the memo self.paths_created: every
\* call in a top-level build file writes an edge
Toolchain_mkdir_NoMemo(m, path, implicit, order_only) ==
    IF m.tc.subninja # <<>> THEN [m |-> m, ret |-> NoneList]
    ELSE writer_build(m, <<path>>, "mkdir", <<>>,
                      IF implicit = NoneList THEN <<>> ELSE implicit,
                      IF order_only = NoneList THEN <<>> ELSE order_only, <<>>)

\* Toolchain.mkdir; ret is NoneList where the call returns None
Toolchain_mkdir(m, path, implicit, order_only) ==
    IF path \in DOMAIN m.tc.paths_created THEN [m |-> m, ret |-> m.tc.paths_created[path]]
    ELSE IF m.tc.subninja # <<>> THEN [m |-> m, ret |-> NoneList]
    ELSE LET cmd == writer_build(m, <<path>>, "mkdir", <<>>,
                                 IF implicit = NoneList THEN <<>> ELSE implicit,
                                 IF order_only = NoneList THEN <<>> ELSE order_only, <<>>)
         IN  [m |-> [cmd.m EXCEPT !.tc.paths_created = (path :> cmd.ret) @@ @], ret |-> cmd.ret]

\* Toolchain.copy
Toolchain_copy(m, src, dst, implicit, order_only) ==
    writer_build(m, <<dst>>, "copy", src,
                 IF implicit = NoneList THEN <<>> ELSE implicit,
                 IF order_only = NoneList THEN <<>> ELSE order_only, <<>>)

\* builder_multicopy's inner while loop for one arch: "found" where a directory
\* of path other than the first is named arch, "absent" where the loop ends
\* without one, "endless" where it cannot end (os.path.split is at its fixed
\* point "/", so remainpath never becomes empty)
RECURSIVE ArchSearch(_, _)
ArchSearch(path, arch) ==
    LET pair == split(path)
    IN  IF pair[1] = <<>> THEN "absent"
        ELSE IF pair[2] = arch THEN "found"
        ELSE IF pair[1] = path THEN "endless"
        ELSE ArchSearch(pair[1], arch)

\* builder_multicopy's loop over archs: the archpath for a file in directory
\* path, None where the search for some arch does not end
RECURSIVE MulticopyArchpath(_, _, _)
MulticopyArchpath(path, archs, outpath) ==
    IF archs = <<>> THEN outpath
    ELSE LET search == ArchSearch(path, Head(archs))
         IN  IF search = "found" THEN join(outpath, Head(archs))
             ELSE IF search = "endless" THEN None
             ELSE MulticopyArchpath(path, Tail(archs), outpath)

\* a call's outcome appended to the outcome r of the calls before it
Accumulate(r, result) == [m |-> result.m, ret |-> r.ret \o result.ret]

\* the interpreter moves on to result.m with result.ret bound to the local name
Store(r, name, result) == (name :> result.ret) @@ [r EXCEPT !.m = result.m]

\* the interpreter moves on to result.m with result.ret appended to the local name
Extend(r, name, result) == [r EXCEPT !.m = result.m, ![name] = @ \o result.ret]

\* the interpreter moves on to result.m and returns ret
Return(ret, result) == [m |-> result.m, ret |-> ret]

\* builder_multicopy: self.copy(writer, file, targetpath, order_only = archdir),
\* archdir being the outcome of self.mkdir
MulticopyCopy(archdir, file, targetpath) ==
    Toolchain_copy(archdir.m, <<file>>, targetpath, NoneList, archdir.ret)

\* builder_multicopy, the end of the loop body: the copy, unless file is
\* already at targetpath
MulticopyTarget(r, file, archpath, targetpath, rootdir) ==
    IF normpath(file) = normpath(targetpath) THEN r
    ELSE Accumulate(r, MulticopyCopy(Toolchain_mkdir(r.m, archpath, rootdir, NoneList),
                                     file, targetpath))

\* builder_multicopy, the loop body once archpath is found
MulticopyFile(r, file, archpath, rootdir) ==
    IF archpath = None THEN [r EXCEPT !.m.status = "hang"]
    ELSE MulticopyTarget(r, file, archpath, join(archpath, split(file)[2]), rootdir)

\* builder_multicopy's loop over infiles
RECURSIVE MulticopyFiles(_, _, _, _, _)
MulticopyFiles(r, archs, infiles, outpath, rootdir) ==
    IF infiles = <<>> \/ r.m.status # "ok" THEN r
    ELSE MulticopyFiles(
             MulticopyFile(r, Head(infiles),
                           IF is_pnacl(r.m.tc.target) THEN outpath
                           ELSE MulticopyArchpath(split(Head(infiles))[1], archs, outpath),
                           rootdir),
             archs, Tail(infiles), outpath, rootdir)

\* builder_multicopy after rootdir = self.mkdir(writer, outpath)
MulticopyRoot(rootdir, archs, infiles, outpath) ==
    MulticopyFiles([m |-> rootdir.m, ret |-> <<>>], archs, infiles, outpath, rootdir.ret)

\* Toolchain.builder_multicopy as it would be if only the first of infiles
\* were copied
Toolchain_builder_multicopy_FirstOnly(m, config, archs, targettype, infiles, outpath, variables) ==
    MulticopyRoot(Toolchain_mkdir(m, outpath, NoneList, NoneList), archs,
                  IF infiles = <<>> THEN <<>> ELSE <<Head(infiles)>>, outpath)

\* Toolchain.builder_multicopy
Toolchain_builder_multicopy(m, config, archs, targettype, infiles, outpath, variables) ==
    MulticopyRoot(Toolchain_mkdir(m, outpath, NoneList, NoneList), archs, infiles, outpath)

----------------------------------------------------------------------------
(* the builders of clang.py, gcc.py and msvc.py *)

\* Toolchain.list_per_config: config_dicts is a list of dicts from config to a
\* list of paths; None where some dict has no entry for config (KeyError)
RECURSIVE Toolchain_list_per_config(_, _)
Toolchain_list_per_config(config_dicts, config) ==
    IF config_dicts = <<>> THEN <<>>
    ELSE LET rest == Toolchain_list_per_config(Tail(config_dicts), config)
         IN  IF config \notin DOMAIN Head(config_dicts) \/ rest = NoneList THEN NoneList
             ELSE Head(config_dicts)[config] \o rest

\* Toolchain.implicit_deps as it would be if the lists of the debug
\* configuration were taken for every configuration
Toolchain_implicit_deps_Debug(self, config, variables) ==
    IF hasattr(variables, "implicit_deps")
    THEN Toolchain_list_per_config(variables.implicit_deps, L_debug)
    ELSE <<>>

\* Toolchain.implicit_deps (None and [] are both written as no implicit inputs)
Toolchain_implicit_deps(self, config, variables) ==
    IF hasattr(variables, "implicit_deps")
    THEN Toolchain_list_per_config(variables.implicit_deps, config)
    ELSE <<>>

\* the exception raised while cc_variables, ar_variables or link_variables of
\* the toolchain's class is evaluated, "" where there is none
VariablesError(self, arch, linking) ==
    IF self.name = "msvc" /\ MsvcMissing(self, linking) # "" THEN "AttributeError"
    ELSE IF self.name = "clang" /\ is_android(self.target) /\ arch \notin AndroidArchs
    THEN "KeyError"
    ELSE ""

\* an optional <<key, value>> of a localvariables list
Pair(present, key, value) == IF present THEN <<<<key, value>>>> ELSE <<>>

\* cc_variables of the toolchain's class
cc_variables(self, config, arch, targettype, variables) ==
    LET moreincludepaths == IF hasattr(variables, "includepaths")
                            THEN make_includepaths(self, variables.includepaths) ELSE <<>>
        carchflags == make_carchflags(self, arch, targettype)
        cconfigflags == make_cconfigflags(self, config, targettype)
        defines == IF hasattr(variables, "defines") THEN variables.defines ELSE <<>>
        msvc == self.name = "msvc"
    IN  Pair(msvc, "toolchain", MSVCToolchain_make_arch_toolchain_path(self, arch))
        \o Pair(moreincludepaths # <<>>, "moreincludepaths", moreincludepaths)
        \o Pair(msvc /\ hasattr(variables, "modulepath"), "pdbpath",
                join(variables.modulepath, <<"n","i","n","j","a",".","p","d","b">>))
        \o Pair(carchflags # <<>>, "carchflags", carchflags)
        \o Pair(cconfigflags # <<>>, "cconfigflags", cconfigflags)
        \o Pair(self.name = "clang" /\ is_android(self.target), "sysroot",
                Android_make_sysroot_path(self.android, arch))
        \o Pair(hasattr(variables, "defines"), "cmoreflags",
                IF msvc
                THEN [i \in 1..(2 * Len(defines)) |->
                         IF i % 2 = 1 THEN "/D" ELSE "\"" \o defines[i \div 2] \o "\""]
                ELSE Prefixed("-D", defines))

\* ar_variables of the toolchain's class
ar_variables(self, config, arch, targettype, variables) ==
    LET msvc == self.name = "msvc"
        ararchflags == IF msvc THEN MSVCToolchain_make_linkarchflags(self, arch, targettype)
                       ELSE <<>>
        arconfigflags == IF msvc THEN MSVCToolchain_make_arconfigflags(self, config, targettype)
                         ELSE <<>>
    IN  Pair(msvc, "toolchain", MSVCToolchain_make_arch_toolchain_path(self, arch))
        \o Pair(ararchflags # <<>>, "ararchflags", ararchflags)
        \o Pair(arconfigflags # <<>>, "arconfigflags", arconfigflags)
        \o Pair(self.name = "clang" /\ is_android(self.target), "toolchain",
                Android_make_gcc_bin_path(self.android, arch))

\* the frameworks list ClangToolchain.link_variables works on: self.frameworks
\* itself where that is not empty, so that += extends the toolchain's list
ClangToolchain_localframeworks(self, variables) ==
    self.frameworks \o (IF hasattr(variables, "frameworks") THEN variables.frameworks ELSE <<>>)

\* link_variables of the toolchain's class; variables is {} where None was passed
link_variables(self, config, arch, targettype, variables) ==
    LET clang == self.name = "clang"
        msvc == self.name = "msvc"
        linkarchflags ==
            IF clang THEN ClangToolchain_make_linkarchflags(self, arch, targettype, variables)
            ELSE IF msvc THEN MSVCToolchain_make_linkarchflags(self, arch, targettype)
            ELSE GCCToolchain_make_targetarchflags(self, arch, targettype)
        linkconfigflags ==
            IF clang THEN ClangToolchain_make_linkconfigflags(self, config, targettype, variables)
            ELSE IF msvc THEN MSVCToolchain_make_linkconfigflags(self, config, targettype)
            ELSE GCCToolchain_make_linkconfigflags(self, config, targettype)
        libvar == IF hasattr(variables, "libs") THEN make_libs(self, variables.libs) ELSE <<>>
        localframeworks == ClangToolchain_localframeworks(self, variables)
        libpaths == IF hasattr(variables, "libpaths") THEN variables.libpaths ELSE <<>>
        configlibpaths ==
            IF clang THEN ClangToolchain_make_configlibpaths(self, config, arch, libpaths)
            ELSE IF msvc THEN MSVCToolchain_make_configlibpaths(self, config, arch, libpaths)
            ELSE GCCToolchain_make_configlibpaths(self, config, arch, libpaths)
        archlibs == IF clang THEN ClangToolchain_make_linkarchlibs(self, arch, targettype)
                    ELSE <<>>
        cxx == hasattr(variables, "runtime") /\ variables.runtime = "c++"
    IN  Pair(msvc, "toolchain", MSVCToolchain_make_arch_toolchain_path(self, arch))
        \o Pair(linkarchflags # <<>>, "linkarchflags", linkarchflags)
        \o Pair(linkconfigflags # <<>>, "linkconfigflags", linkconfigflags)
        \o Pair(msvc /\ hasattr(variables, "modulepath"), "pdbpath",
                join(variables.modulepath, <<"n","i","n","j","a",".","p","d","b">>))
        \o Pair(libvar # <<>>, "libs", libvar)
        \o Pair(clang /\ localframeworks # <<>>, "frameworks",
                Prefixed("-framework ", localframeworks))
        \o <<<<"configlibpaths", configlibpaths>>>>
        \o Pair(clang /\ is_android(self.target), "sysroot",
                Android_make_sysroot_path(self.android, arch))
        \o Pair(archlibs # <<>>, "archlibs", make_libs(self, archlibs))
        \o Pair(~msvc /\ cxx, "link", self.cxxlinker)

\* the toolchain after ClangToolchain.link_variables as it would be if the
\* request's frameworks were assigned to self.frameworks
AfterLinkVariables_Assigned(self, variables) ==
    IF self.name = "clang" /\ self.frameworks # <<>> /\ hasattr(variables, "frameworks")
    THEN [self EXCEPT !.frameworks = variables.frameworks]
    ELSE self

\* the toolchain after ClangToolchain.link_variables: where self.frameworks is
\* not empty, localframeworks is that very list and += changes it in place
AfterLinkVariables(self, variables) ==
    IF self.name = "clang" /\ self.frameworks # <<>>
    THEN [self EXCEPT !.frameworks = ClangToolchain_localframeworks(self, variables)]
    ELSE self

\* the rule of a compile or link builder
BuilderRule(self, builder) ==
    IF builder = "builder_cc" THEN "cc"
    ELSE IF builder = "builder_cxx" THEN "cxx"
    ELSE IF builder = "builder_cm" THEN "cm"
    ELSE IF builder = "builder_lib" THEN "ar"
    ELSE IF builder = "builder_bin" THEN "link"
    ELSE IF self.name = "gcc" THEN "so"
    ELSE IF self.name = "msvc" \/ is_windows(self.target) THEN "dll"
    ELSE "so"

\* self.builders[key](writer, config, arch, targettype, infiles, outfile,
\* variables): variables is NoObject where None is passed; arch is None where
\* the list self.archs is passed
CallBuilder(m, builder, config, arch, archs, targettype, infiles, outfile, variables) ==
    LET self == m.tc
        given == IF variables = NoObject THEN <<>> ELSE variables
        implicit == Toolchain_implicit_deps(self, config, given)
        compiling == builder \in {"builder_cc", "builder_cxx", "builder_cm"}
        linking == builder \in {"builder_sharedlib", "builder_bin", "builder_apple_multisharedlib"}
        error == VariablesError(self, arch, linking)
        linked == [m EXCEPT !.tc = AfterLinkVariables(self, given)]
        fused == join(outfile, self.buildtarget)
    IN  IF builder = "builder_multicopy"
        THEN Toolchain_builder_multicopy(m, config, archs, targettype, infiles, outfile, variables)
        ELSE IF builder = "builder_apple_multilib"
        THEN (IF variables # NoObject THEN Raised(m, "TypeError", "variables + localvariables")
              ELSE writer_build(m, <<fused>>, "ar", infiles, <<>>, <<>>,
                                <<<<"arflags", "-static -no_warning_for_no_symbols">>>>))
        ELSE IF builder = "builder_apple_multibin"
        THEN writer_build(m, <<fused>>, "lipo", infiles, <<>>, <<>>, given)
        ELSE IF implicit = NoneList THEN Raised(m, "KeyError", config)
        ELSE IF error # "" THEN Raised(m, error, arch)
        ELSE IF compiling
        THEN writer_build(m, <<outfile>>, BuilderRule(self, builder), infiles, implicit, <<>>,
                          cc_variables(self, config, arch, targettype, given))
        ELSE IF builder = "builder_lib"
        THEN writer_build(m, <<outfile>>, "ar", infiles, implicit, <<>>,
                          ar_variables(self, config, arch, targettype, given))
        ELSE writer_build(linked,
                          <<IF builder = "builder_apple_multisharedlib" THEN fused ELSE outfile>>,
                          BuilderRule(self, builder), infiles, implicit, <<>>,
                          link_variables(self, config, arch, targettype, given))

\* the items a for loop takes from a str
Characters(s) == [i \in 1..Len(s) |-> <<s[i]>>]

\* Toolchain.compile_file as it would be if a file whose extension has no
\* builder were handed to the C compiler
Toolchain_compile_file_DefaultCC(m, config, arch, targettype, infile, outfile, variables) ==
    LET extension == Tail(splitext(infile)[2])
        builder == m.tc.builders[extension]
    IN  IF splitext(infile)[2] # <<>> /\ extension \in DOMAIN m.tc.builders
        THEN CallBuilder(m, builder, config, arch, Characters(arch), targettype,
                         IF builder = "builder_multicopy" THEN Characters(infile)
                         ELSE <<infile>>,
                         outfile, variables)
        ELSE CallBuilder(m, "builder_cc", config, arch, Characters(arch), targettype,
                         <<infile>>, outfile, variables)

\* Toolchain.compile_file: a str handed to a builder that expects a list is
\* taken as the list of its characters by a for loop and as one path by Writer.build
Toolchain_compile_file(m, config, arch, targettype, infile, outfile, variables) ==
    LET extension == Tail(splitext(infile)[2])
        builder == m.tc.builders[extension]
    IN  IF splitext(infile)[2] # <<>> /\ extension \in DOMAIN m.tc.builders
        THEN CallBuilder(m, builder, config, arch, Characters(arch), targettype,
                         IF builder = "builder_multicopy" THEN Characters(infile)
                         ELSE <<infile>>,
                         outfile, variables)
        ELSE [m |-> m, ret |-> <<>>]

\* Toolchain.compile_node
Toolchain_compile_node(m, nodetype, config, arch, archs, infiles, outfile, variables) ==
    IF nodetype \in DOMAIN m.tc.builders
    THEN CallBuilder(m, m.tc.builders[nodetype], config, arch, archs, nodetype, infiles,
                     outfile, variables)
    ELSE [m |-> m, ret |-> <<>>]

----------------------------------------------------------------------------
(* toolchain.py: build_sources and the artifact requests *)

\* Toolchain.make_implicit_deps
Toolchain_make_implicit_deps(self, outpath, arch, config, dependlibs) ==
    LET finalpath(lib) ==
            IF is_macos(self.target) \/ is_ios(self.target)
            THEN joinAll(<<self.libpath, config, self.libprefix \o lib \o self.staticlibext>>)
            ELSE joinAll(<<self.libpath, config, arch, self.libprefix \o lib \o self.staticlibext>>)
    IN  <<(config :> [i \in 1..Len(dependlibs) |-> finalpath(dependlibs[i])])>>

\* built[config] = the outputs of the final node
AccumulateBuilt(r, config, final) == [m |-> final.m, ret |-> (config :> final.ret) @@ r.ret]

\* build_sources, the body of the loop over the sources: name is the source,
\* local its path below basepath and module
BuildObject(r, c, name, local) ==
    Accumulate(r, Toolchain_compile_file(
        r.m, c.config, c.arch, c.nodetype,
        IF isabs(name) THEN name
        ELSE IF r.m.tc.subninja # <<>> THEN join(r.m.tc.subninja, local)
        ELSE local,
        join(c.modulepath,
             splitext(IF isabs(name) THEN basename(name) ELSE name)[1]
             \o make_pathhash(IF isabs(name) THEN name ELSE local, c.nodetype, c.longint)
             \o r.m.tc.objext),
        c.sourcevariables))

\* build_sources, the loop over the sources of one config and arch; r.ret is objs
RECURSIVE BuildObjects(_, _, _)
BuildObjects(r, c, sources) ==
    IF sources = <<>> \/ r.m.status # "ok" THEN r
    ELSE BuildObjects(BuildObject(r, c, Head(sources),
                                  joinAll(<<c.basepath, c.module, Head(sources)>>)),
                      c, Tail(sources))

\* build_sources, the node of one config and arch from its objects
BuildNode(r, c, arch, modulepath, objs) ==
    IF objs.m.status # "ok" THEN objs
    ELSE Accumulate(r, Toolchain_compile_node(
             objs.m, c.nodetype, c.config, arch, <<>>, objs.ret, join(modulepath, c.binfile),
             [modulepath |-> modulepath,
              implicit_deps |->
                  IF r.m.tc.internal_deps /\ c.dependlibs # NoneList
                  THEN c.implicit_deps
                       \o Toolchain_make_implicit_deps(r.m.tc, c.outpath, arch, c.config,
                                                       c.dependlibs)
                  ELSE c.implicit_deps]
             @@ c.nodevariables))

\* build_sources, the body of the loop over self.archs
BuildArch(r, c, arch, modulepath) ==
    BuildNode(r, c, arch, modulepath,
              BuildObjects([m |-> r.m, ret |-> <<>>],
                           [modulepath |-> modulepath, arch |-> arch,
                            sourcevariables |-> [modulepath |-> modulepath]
                                                @@ c.sourcevariables] @@ c,
                           c.sources))

\* build_sources, the loop over self.archs for one config; r.ret is archnodes
RECURSIVE BuildArchs(_, _, _)
BuildArchs(r, c, archs) ==
    IF archs = <<>> \/ r.m.status # "ok" THEN r
    ELSE BuildArchs(BuildArch(r, c, Head(archs),
                              joinAll(<<L_buildpath, c.config, Head(archs), c.basepath,
                                        c.decoratedmodule>>)),
                    c, Tail(archs))

\* build_sources as it would be if the final node of a config were built a
\* second time after the first
BuildFinal_Twice(r, c, config, archnodes) ==
    IF archnodes.m.status # "ok" THEN [archnodes EXCEPT !.ret = r.ret]
    ELSE AccumulateBuilt(r, config,
                         Toolchain_compile_node(
                             Toolchain_compile_node(archnodes.m, c.multitype, config, None,
                                                    archnodes.m.tc.archs, archnodes.ret,
                                                    join(c.outpath, config), NoObject).m,
                             c.multitype, config, None, archnodes.m.tc.archs, archnodes.ret,
                             join(c.outpath, config), NoObject))

\* build_sources, the final node of one config from the nodes of its archs;
\* built maps the config to the outputs of that node
BuildFinal(r, c, config, archnodes) ==
    IF archnodes.m.status # "ok" THEN [archnodes EXCEPT !.ret = r.ret]
    ELSE AccumulateBuilt(r, config,
                         Toolchain_compile_node(archnodes.m, c.multitype, config, None,
                                                archnodes.m.tc.archs, archnodes.ret,
                                                join(c.outpath, config), NoObject))

\* build_sources, the loop over configs; r.ret is built, a dict from config to
\* the outputs of the config's final node
RECURSIVE BuildConfigs(_, _, _)
BuildConfigs(r, c, configs) ==
    IF configs = <<>> \/ r.m.status # "ok" THEN r
    ELSE BuildConfigs(BuildFinal(r, c, Head(configs),
                                 BuildArchs([m |-> r.m, ret |-> <<>>],
                                            [config |-> Head(configs)] @@ c, r.m.tc.archs)),
                      c, Tail(configs))

\* (variables or {}).copy() followed by update(new); variables is NoObject
\* where None is passed
Updated(variables, new) == IF variables = NoObject THEN new ELSE new @@ variables

\* Toolchain.build_sources.  libs and frameworks are [] where None is passed
\* (both read the same), dependlibs is NoneList where None is passed
Toolchain_build_sources(m, nodetype, multitype, module, sources, binfile, basepath, outpath, configs, includepaths, libpaths, dependlibs, libs, implicit_deps, variables, frameworks, longint) ==
    BuildConfigs(
        [m |-> [m EXCEPT !.tc = SetAttrs(m.tc, [module |-> module, buildtarget |-> binfile])],
         ret |-> <<>>],
        [nodetype |-> nodetype, multitype |-> multitype, module |-> module,
         sources |-> sources, binfile |-> binfile, basepath |-> basepath,
         outpath |-> outpath, dependlibs |-> dependlibs,
         implicit_deps |-> implicit_deps,
         decoratedmodule |->
             (IF module # <<>> THEN module ELSE basepath)
             \o make_pathhash(m.tc.subninja \o (IF module # <<>> THEN module ELSE basepath)
                              \o binfile, nodetype, longint),
         sourcevariables |->
             Updated(variables,
                     [includepaths |-> m.tc.depend_includepaths
                                       \o Toolchain_prefix_includepaths(m.tc, includepaths)]),
         nodevariables |->
             Updated(variables,
                     [libs |-> libs \o (IF dependlibs = NoneList THEN <<>>
                                        ELSE [i \in 1..Len(dependlibs) |->
                                                 ToStr(dependlibs[i])]),
                      implicit_deps |-> implicit_deps,
                      libpaths |-> m.tc.depend_libpaths \o libpaths,
                      frameworks |-> frameworks]),
         longint |-> longint],
        configs)

----------------------------------------------------------------------------
(* toolchain.py: lib, sharedlib, bin, app; xcode.py: app; android.py: apk *)

\* Toolchain.lib.  q is the request as configure.py passes it to
\* Generator.lib, sharedlib, bin or app: name is libname or binname (None
\* where omitted), basepath and configs are None and NoneList where omitted,
\* resources is NoneList where omitted
Toolchain_lib(m, q, longint) ==
    Toolchain_build_sources(m, L_lib, L_multilib, q.module, q.sources,
            m.tc.libprefix \o (IF q.name = None THEN q.module ELSE q.name)
            \o m.tc.staticlibext,
            IF q.basepath = None THEN <<>> ELSE q.basepath, m.tc.libpath,
            IF q.configs = NoneList THEN m.tc.configs ELSE q.configs,
            q.includepaths, <<>>, NoneList, <<>>, <<>>, q.variables, <<>>, longint)

\* Toolchain.sharedlib
Toolchain_sharedlib(m, q, longint) ==
    Toolchain_build_sources(m, L_sharedlib, L_multisharedlib, q.module, q.sources,
            m.tc.libprefix \o (IF q.name = None THEN q.module ELSE q.name)
            \o m.tc.dynamiclibext,
            IF q.basepath = None THEN <<>> ELSE q.basepath, m.tc.binpath,
            IF q.configs = NoneList THEN m.tc.configs ELSE q.configs,
            q.includepaths, q.libpaths, q.dependlibs, q.libs, q.implicit_deps, q.variables,
            q.frameworks, longint)

\* Toolchain.bin; outpath is None where the caller leaves it out
Toolchain_bin(m, q, outpath, longint) ==
    IF q.name = None THEN Raised(m, "TypeError", "self.binprefix + binname")
    ELSE Toolchain_build_sources(m, L_bin, L_multibin, q.module, q.sources,
            m.tc.binprefix \o q.name \o m.tc.binext,
            IF q.basepath = None THEN <<>> ELSE q.basepath,
            IF outpath = None THEN m.tc.binpath ELSE outpath,
            IF q.configs = NoneList THEN m.tc.configs ELSE q.configs,
            q.includepaths, q.libpaths, q.dependlibs, q.libs, q.implicit_deps, q.variables,
            q.frameworks, longint)

\* str.replace(old, new)
RECURSIVE Replace(_, _, _)
Replace(s, old, new) ==
    IF s = <<>> \/ old = <<>> THEN s
    ELSE IF StartsWith(s, old) THEN new \o Replace(SubSeq(s, Len(old) + 1, Len(s)), old, new)
    ELSE <<Head(s)>> \o Replace(Tail(s), old, new)

\* os.getcwd()
getcwd == <<"/", "w">>

\* os.path.splitext(os.path.basename(resource))[0]
Stem(resource) == splitext(basename(resource))[1]

\* XCode.app, an .xcassets resource
XCodeAssets(r, c, resource, outplist) ==
    [Extend(r, "assetsplists",
            writer_build(r.m,
                <<outplist>> \o (IF c.macos
                                 THEN <<joinAll(<<getcwd, c.apppath, L_Contents, L_Resources,
                                                  L_AppIcon_icns>>)>>
                                 ELSE <<>>),
                "xcassets", <<joinAll(<<getcwd, c.basepath, c.module, resource>>)>>, <<>>, <<>>,
                <<<<"outpath", IF c.macos THEN joinAll(<<getcwd, c.apppath, L_Contents,
                                                        L_Resources>>)
                               ELSE c.apppath>>,
                  <<"outplist", outplist>>>>))
     EXCEPT !.has_resources = TRUE]

\* XCode.app, an .xib resource, as it would be if the partial plist of the
\* resource were not added to xibplists
XCodeXib_NoFragment(r, c, resource, nibpath, plistpath) ==
    [Extend(r, "builtres",
            writer_build(r.m,
                (IF c.ios
                 THEN <<join(nibpath, L_objects_nib), join(nibpath, L_objects8_nib),
                        join(nibpath, L_runtime_nib)>>
                 ELSE <<>>) \o <<nibpath, plistpath>>,
                "xib", <<joinAll(<<c.basepath, c.module, resource>>)>>, <<>>, <<>>,
                <<<<"outpath", nibpath>>, <<"outplist", plistpath>>,
                  <<"module", Replace(Replace(c.binname, <<"-">>, <<"_">>), <<".">>, <<"_">>)>>>>))
     EXCEPT !.has_resources = TRUE]

\* XCode.app, an .xib resource
XCodeXib(r, c, resource, nibpath, plistpath) ==
    [Extend(r, "builtres",
            writer_build(r.m,
                (IF c.ios
                 THEN <<join(nibpath, L_objects_nib), join(nibpath, L_objects8_nib),
                        join(nibpath, L_runtime_nib)>>
                 ELSE <<>>) \o <<nibpath, plistpath>>,
                "xib", <<joinAll(<<c.basepath, c.module, resource>>)>>, <<>>, <<>>,
                <<<<"outpath", nibpath>>, <<"outplist", plistpath>>,
                  <<"module", Replace(Replace(c.binname, <<"-">>, <<"_">>), <<".">>, <<"_">>)>>>>))
     EXCEPT !.has_resources = TRUE, !.xibplists = @ \o <<plistpath>>]

\* XCode.app, the body of the loop over resources
XCodeResource(r, c, resource) ==
    IF EndsWith(resource, L_dot_xcassets)
    THEN XCodeAssets(r, c, resource,
                     joinAll(<<getcwd, c.builddir, Stem(resource) \o L_xcassets_plist>>))
    ELSE IF EndsWith(resource, L_dot_xib)
    THEN XCodeXib(r, c, resource,
                  IF c.macos THEN joinAll(<<c.apppath, L_Contents, L_Resources,
                                            Stem(resource) \o L_dot_nib>>)
                  ELSE join(c.apppath, Stem(resource) \o L_dot_nib),
                  join(c.builddir, Stem(resource) \o L_xib_plist))
    ELSE IF EndsWith(resource, L_dot_plist)
    THEN [r EXCEPT !.plists = @ \o <<joinAll(<<c.basepath, c.module, resource>>)>>]
    ELSE r

\* XCode.app, the loop over resources: r.assetsplists, r.xibplists, r.plists,
\* r.builtres and r.has_resources are the locals of the same names
RECURSIVE XCodeResources(_, _, _)
XCodeResources(r, c, resources) ==
    IF resources = <<>> THEN r
    ELSE XCodeResources(XCodeResource(r, c, Head(resources)), c, Tail(resources))

\* XCode.make_bundleidentifier
XCode_make_bundleidentifier(self, binname) ==
    Replace(self.bundleidentifier, L_binname_macro, binname)

\* XCode.app, "Extract debug symbols from universal binary"
XCodeSym(r, c) ==
    Store(r, "builtsym",
          writer_build(r.m,
              <<joinAll(<<c.dsympath, L_Contents, L_Resources, L_DWARF, c.binname>>),
                joinAll(<<c.dsympath, L_Contents, L_Resources, L_DWARF>>),
                joinAll(<<c.dsympath, L_Contents, L_Resources>>),
                joinAll(<<c.dsympath, L_Contents, L_Info_plist>>),
                join(c.dsympath, L_Contents), c.dsympath>>,
              "dsymutil", c.archbin, <<>>, <<>>, <<<<"outpath", c.dsympath>>>>))

\* XCode.app, "Copy final universal binary"
XCodeBin(r, c) ==
    Store(r, "builtbin",
          Toolchain_copy(r.m, c.archbin,
                         IF c.ios THEN join(c.apppath, c.exe)
                         ELSE joinAll(<<c.apppath, L_Contents, L_MacOS, c.exe>>),
                         NoneList, NoneList))

\* XCode.app, "Now build input plists appending partial plists created by
\* previous resources"
XCodePlist(r, c, plistpath, pkginfopath) ==
    IF c.resources = <<>> THEN r
    ELSE Extend(r, "builtres",
                writer_build(r.m,
                    (IF r.has_resources /\ c.macos
                     THEN <<joinAll(<<c.apppath, L_Contents, L_Resources>>)>>
                     ELSE <<>>) \o <<plistpath, pkginfopath>>,
                    "plist", r.plists \o r.assetsplists \o r.xibplists,
                    <<joinAll(<<L_build, L_ninja, L_plist_py>>)>>, <<>>,
                    <<<<"exename", c.binname>>, <<"prodname", c.binname>>,
                      <<"outpath", plistpath>>>>
                    \o Pair(c.bundleidentifier # <<>>, "bundleidentifier", c.bundleidentifier)))

\* XCode.app, "Do code signing", and the return value
XCodeSign(r, c, signature) ==
    Return(r.builtbin \o r.builtsym \o r.builtres,
           writer_build(r.m,
               <<joinAll(<<signature, L_CodeSignature, L_CodeResources>>),
                 join(signature, L_CodeSignature)>>
               \o (IF c.macos THEN <<signature>> ELSE <<>>) \o <<c.apppath>>,
               "codesign", r.builtbin,
               r.builtres \o <<joinAll(<<L_build, L_ninja, L_codesign_py>>)>>, <<>>,
               <<<<"builddir", c.builddir>>, <<"binname", c.binname>>,
                 <<"outpath", c.apppath>>, <<"config", c.config>>>>
               \o Pair(c.provisioning # <<>>, "provisioning", c.provisioning)))

\* XCode.app, the statements in order; c holds the arguments and the paths
XCodeSteps(r, c) ==
    XCodeSign(
        XCodePlist(
            XCodeResources(XCodeBin(XCodeSym(r, c), c), c, c.resources), c,
            IF c.macos THEN joinAll(<<c.apppath, L_Contents, L_Info_plist>>)
            ELSE join(c.apppath, L_Info_plist),
            IF c.macos THEN joinAll(<<c.apppath, L_Contents, L_PkgInfo>>)
            ELSE join(c.apppath, L_PkgInfo)),
        c, IF c.macos THEN join(c.apppath, L_Contents) ELSE c.apppath)

\* XCode.app(toolchain, writer, module, archbins, outpath, binname, basepath,
\* config, None, resources, True); resources is NoneList where None is passed
XCode_app(m, module, archbins, outpath, binname, basepath, config, resources) ==
    XCodeSteps(
        [m |-> m, builtbin |-> <<>>, builtres |-> <<>>, builtsym |-> <<>>,
         has_resources |-> FALSE, plists |-> <<>>, assetsplists |-> <<>>, xibplists |-> <<>>],
        [module |-> module, basepath |-> basepath, binname |-> binname, config |-> config,
         archbin |-> archbins[config],
         resources |-> IF resources = NoneList THEN <<>> ELSE resources,
         macos |-> is_macos(m.tc.xcode.target), ios |-> is_ios(m.tc.xcode.target),
         builddir |-> joinAll(<<L_buildpath, config, L_app, binname>>),
         apppath |-> joinAll(<<outpath, config, binname \o L_dot_app>>),
         dsympath |-> joinAll(<<outpath, config, binname \o L_dot_dSYM>>),
         exe |-> m.tc.binprefix \o binname \o m.tc.binext,
         provisioning |-> m.tc.xcode.provisioning,
         bundleidentifier |-> XCode_make_bundleidentifier(m.tc.xcode, binname)])

\* Toolchain.paths_forward_slash
Toolchain_paths_forward_slash(paths) ==
    [i \in 1..Len(paths) |-> Replace(paths[i], <<"\\">>, <<"/">>)]

\* Android.apk, the copy of one arch binary below lib/<archpath>
ApkLib(r, buildpath, archbin, locallibpath) ==
    [Extend(r, "libfiles",
            Toolchain_copy(r.m, <<archbin>>, join(buildpath, locallibpath), NoneList, NoneList))
     EXCEPT !.locallibs = @ \o <<locallibpath \o <<" ">>>>]

\* Android.apk, the body of the loop over the arch binaries: archpair is
\* os.path.split(archbin) and arch the last component of its head
ApkArch(r, buildpath, archbin, archpair, arch) ==
    IF arch \notin DOMAIN r.m.tc.android.archpath
    THEN [r EXCEPT !.m = Raise(r.m, "KeyError", arch)]
    ELSE ApkLib(r, buildpath, archbin,
                joinAll(<<L_lib, r.m.tc.android.archpath[arch], archpair[2]>>))

\* Android.apk, the loop over the arch binaries: r.locallibs and r.libfiles
\* are the locals of the same names
RECURSIVE ApkLibs(_, _, _)
ApkLibs(r, buildpath, archbins) ==
    IF archbins = <<>> \/ r.m.status # "ok" THEN r
    ELSE ApkLibs(ApkArch(r, buildpath, Head(archbins), split(Head(archbins)),
                         split(split(Head(archbins))[1])[2]),
                 buildpath, Tail(archbins))

\* Android.apk, the body of the loop over resources
ApkResource(r, c, resource, filename, restype) ==
    IF filename = L_AndroidManifest_xml
    THEN Store(r, "manifestfile",
               Toolchain_copy(r.m, <<joinAll(<<c.basepath, c.module, resource>>)>>,
                              join(c.buildpath, L_AndroidManifest_xml), NoneList, NoneList))
    ELSE IF restype = L_asset THEN r
    ELSE Extend(r, "resfiles",
                Toolchain_copy(r.m, <<joinAll(<<c.basepath, c.module, resource>>)>>,
                               joinAll(<<c.buildpath, L_res, restype, filename>>),
                               NoneList, NoneList))

\* Android.apk, the loop over resources: r.manifestfile and r.resfiles are the
\* locals of the same names
RECURSIVE ApkResources(_, _, _)
ApkResources(r, c, resources) ==
    IF r.m.status # "ok" THEN r
    ELSE IF resources = NoneList
    THEN [r EXCEPT !.m = Raise(r.m, "TypeError", "for resource in resources")]
    ELSE IF resources = <<>> THEN r
    ELSE ApkResources(ApkResource(r, c, Head(resources), split(Head(resources))[2],
                                  split(split(Head(resources))[1])[2]),
                      c, Tail(resources))

\* Android.apk, gendir = toolchain.mkdir(writer, os.path.join(buildpath, 'gen'))
ApkGenDir(r, c) ==
    IF r.m.status # "ok" THEN r
    ELSE Store(r, "gendir", Toolchain_mkdir(r.m, join(c.buildpath, L_gen), NoneList, NoneList))

\* Android.apk, bindir = toolchain.mkdir(writer, os.path.join(buildpath, 'bin'))
ApkBinDir(r, c) ==
    IF r.m.status # "ok" THEN r
    ELSE Store(r, "bindir", Toolchain_mkdir(r.m, join(c.buildpath, L_bin), NoneList, NoneList))

\* Android.apk, binresdir = toolchain.mkdir(writer, os.path.join(buildpath,
\* 'bin', 'res'), order_only = bindir)
ApkBinResDir(r, c) ==
    IF r.m.status # "ok" THEN r
    ELSE Store(r, "binresdir",
               Toolchain_mkdir(r.m, joinAll(<<c.buildpath, L_bin, L_res>>), NoneList, r.bindir))

\* Android.apk, alldirs = gendir + bindir + binresdir and the base apk
ApkBase(r, c) ==
    IF r.m.status # "ok" THEN r
    ELSE IF NoneList \in {r.gendir, r.bindir, r.binresdir}
    THEN [r EXCEPT !.m = Raise(r.m, "TypeError", "gendir + bindir + binresdir")]
    ELSE Store(r, "baseapkfile",
               writer_build(r.m, <<join(c.buildpath, c.binname \o L_base_apk)>>,
                   IF c.config = L_deploy THEN "aaptdeploy" ELSE "aapt",
                   r.manifestfile, r.manifestfile \o r.resfiles,
                   r.gendir \o r.bindir \o r.binresdir,
                   <<<<"apkbuildpath", c.buildpath>>, <<"apk", c.binname \o L_base_apk>>>>))

\* Android.apk, "Compile java code": javac
ApkJavac(r, c) ==
    IF r.m.status # "ok" \/ c.javasources = <<>> THEN r
    ELSE Store(r, "javaclasses",
               writer_build(r.m, <<join(c.buildpath, L_classes)>>, "javac", c.javasources,
                   r.baseapkfile, <<>>,
                   <<<<"outpath", join(c.buildpath, L_classes)>>,
                     <<"sourcepath", <<".">> \o (IF is_windows(r.m.tc.android.host)
                                                 THEN <<";">> ELSE <<":">>)
                                     \o join(c.buildpath, L_gen)>>>>))

\* Android.apk, "Compile java code": dex
ApkDex(r, c) ==
    IF r.m.status # "ok" \/ c.javasources = <<>> THEN r
    ELSE [Store(r, "javafiles",
                writer_build(r.m, <<join(c.buildpath, L_classes_dex)>>, "dex",
                             <<join(c.buildpath, L_classes)>>, <<>>, <<>>, <<>>))
          EXCEPT !.localjava = <<L_classes_dex>>]

\* Android.apk, "Add native libraries and java classes to apk"
ApkUnsigned(r, c) ==
    IF r.m.status # "ok" THEN r
    ELSE Store(r, "unsignedapkfile",
               writer_build(r.m, <<join(c.buildpath, c.binname \o L_unsigned_apk)>>, "aaptadd",
                   r.baseapkfile, r.libfiles \o r.javafiles,
                   r.gendir \o r.bindir \o r.binresdir,
                   <<<<"apkbuildpath", c.buildpath>>, <<"apk", c.binname \o L_unsigned_apk>>,
                     <<"apksource", c.binname \o L_base_apk>>,
                     <<"apkaddfiles",
                       Toolchain_paths_forward_slash(r.locallibs \o r.localjava)>>>>))

\* Android.apk as it would be if signing took the base package instead of
\* the package with the native libraries and classes added
ApkUnaligned_SignsBase(r, c) ==
    IF r.m.status # "ok" THEN r
    ELSE Store(r, "unalignedapkfile",
               writer_build(r.m, <<join(c.buildpath, c.binname \o L_unaligned_apk)>>,
                            "codesign", r.baseapkfile, <<>>, <<>>,
                            <<<<"config", c.config>>>>))

\* Android.apk, "Sign the APK"
ApkUnaligned(r, c) ==
    IF r.m.status # "ok" THEN r
    ELSE Store(r, "unalignedapkfile",
               writer_build(r.m, <<join(c.buildpath, c.binname \o L_unaligned_apk)>>,
                            "codesign", r.unsignedapkfile, <<>>, <<>>,
                            <<<<"config", c.config>>>>))

\* Android.apk, "Run zipalign", and the return value
ApkAligned(r, c) ==
    IF r.m.status # "ok" THEN [m |-> r.m, ret |-> <<>>]
    ELSE writer_build(r.m, <<joinAll(<<c.outpath, c.config, c.binname \o L_dot_apk>>)>>,
                      "zipalign", r.unalignedapkfile, <<>>, <<>>, <<>>)

\* Android.apk, the statements in order; c holds the arguments and buildpath
ApkSteps(r, c) ==
    ApkAligned(ApkUnaligned(ApkUnsigned(ApkDex(ApkJavac(ApkBase(ApkBinResDir(ApkBinDir(
        ApkGenDir(ApkResources(ApkLibs(r, c.buildpath, c.archbin), c, c.resources), c),
        c), c), c), c), c), c), c), c)

\* Android.apk(toolchain, writer, module, archbins, javasources, outpath,
\* binname, basepath, config, None, resources); resources is NoneList where
\* None is passed
Android_apk(m, module, archbins, javasources, outpath, binname, basepath, config, resources) ==
    ApkSteps(
        [m |-> m, locallibs |-> <<>>, libfiles |-> <<>>, manifestfile |-> <<>>,
         resfiles |-> <<>>, javafiles |-> <<>>, localjava |-> <<>>],
        [module |-> module, archbin |-> archbins[config], javasources |-> javasources,
         outpath |-> outpath, binname |-> binname, basepath |-> basepath, config |-> config,
         resources |-> resources,
         buildpath |-> joinAll(<<L_buildpath, config, L_apk, binname>>)])

\* Toolchain.app, the bundle of one config from its binary
AppBundle(r, q, config, binname, basepath, archbins) ==
    IF archbins.m.status # "ok" THEN [m |-> archbins.m, ret |-> r.ret]
    ELSE IF is_macos(r.m.tc.target) \/ is_ios(r.m.tc.target)
    THEN Accumulate(r, XCode_app(archbins.m, q.module, archbins.ret, r.m.tc.binpath, binname,
                                 basepath, config, q.resources))
    ELSE IF is_android(r.m.tc.target)
    THEN Accumulate(r, Android_apk(archbins.m, q.module, archbins.ret,
                                   SelectSeq(q.sources, LAMBDA name : EndsWith(name, L_dot_java)),
                                   r.m.tc.binpath, binname, basepath, config, q.resources))
    ELSE [m |-> archbins.m, ret |-> r.ret]

\* Toolchain.app, the body of the loop over configs
AppConfig(r, q, config, binname, basepath, longint) ==
    AppBundle(r, q, config, binname, basepath,
              Toolchain_bin(r.m, [q EXCEPT !.name = binname, !.basepath = basepath,
                                           !.configs = <<config>>],
                            L_buildpath, longint))

\* Toolchain.app, the loop over configs; r.ret is builtbin
RECURSIVE AppConfigs(_, _, _, _)
AppConfigs(r, q, configs, longint) ==
    IF configs = <<>> \/ r.m.status # "ok" THEN r
    ELSE AppConfigs(AppConfig(r, q, Head(configs),
                              IF q.name = None THEN q.module ELSE q.name,
                              IF q.basepath = None THEN <<>> ELSE q.basepath, longint),
                    q, Tail(configs), longint)

\* Toolchain.app as it would be without the filter of the platforms that have
\* no app concept
Toolchain_app_NoFilter(m, q, longint) ==
    AppConfigs([m |-> m, ret |-> <<>>], q,
               IF q.configs = NoneList THEN m.tc.configs ELSE q.configs, longint)

\* Toolchain.app
Toolchain_app(m, q, longint) ==
    IF ~(is_macos(m.tc.target) \/ is_ios(m.tc.target) \/ is_android(m.tc.target)
         \/ is_tizen(m.tc.target))
    THEN [m |-> m, ret |-> <<>>]
    ELSE AppConfigs([m |-> m, ret |-> <<>>], q,
                    IF q.configs = NoneList THEN m.tc.configs ELSE q.configs, longint)

----------------------------------------------------------------------------
(* write_variables, write_rules, and generator.py: Generator.__init__ *)

\* one writer.variable(key, self.<name>) call: the key, whether the attribute
\* exists, and its value
Attr(self, key, name) == <<key, hasattr(self, name), IF hasattr(self, name) THEN self[name] ELSE None>>

\* one writer.variable(key, value) call whose value reads no attribute
Lit(key, value) == <<key, TRUE, value>>

\* a run of writer.variable calls, in order, ending at the first one that
\* reads an attribute never assigned
RECURSIVE WriteVariables(_, _)
WriteVariables(m, calls) ==
    IF calls = <<>> \/ m.status # "ok" THEN m
    ELSE IF ~calls[1][2] THEN Raise(m, "AttributeError", calls[1][1])
    ELSE WriteVariables(writer_variable(m, calls[1][1], calls[1][3]), Tail(calls))

\* (os.environ.get(key) or '').split(), for values without white space
EnvFlags(env, key) == IF hasattr(env.environ, key) /\ env.environ[key] # "" 
                      THEN <<env.environ[key]>> ELSE <<>>

\* syntax.escape
escape(s) == Replace(s, <<"$">>, <<"$", "$">>)

\* Android.write_variables
Android_write_variables(self) ==
    <<Attr(self, "ndk", "ndkpath"), Attr(self, "sdk", "sdkpath"), Attr(self, "sysroot", "sysroot"),
      Attr(self, "androidjar", "android_jar"), Lit("apkbuildpath", ""), Lit("apk", ""),
      Lit("apksource", ""), Lit("apkaddfiles", ""), Attr(self, "javac", "javac"),
      Attr(self, "dex", "dex"), Attr(self, "aapt", "aapt"), Attr(self, "zipalign", "zipalign"),
      Attr(self, "jarsigner", "jarsigner"), Lit("aaptflags", "")>>

\* XCode.write_variables
XCode_write_variables(self) ==
    <<Attr(self, "plist", "plist"), Attr(self, "xcassets", "xcassets"), Attr(self, "xib", "xib"),
      Attr(self, "dsymutil", "dsymutil"),
      Lit("bundleidentifier", escape(self.bundleidentifier)),
      Attr(self, "deploymenttarget", "deploymenttarget")>>

\* Toolchain.write_variables
Toolchain_write_variables(self) ==
    <<Attr(self, "buildpath", "buildpath"), Lit("target", self.target), Lit("config", "")>>
    \o (IF self.android # NoObject THEN Android_write_variables(self.android) ELSE <<>>)
    \o (IF self.xcode # NoObject THEN XCode_write_variables(self.xcode) ELSE <<>>)

\* ClangToolchain.write_variables
ClangToolchain_write_variables(self, env) ==
    LET apple == is_macos(self.target) \/ is_ios(self.target)
    IN  Toolchain_write_variables(self)
        \o <<Attr(self, "toolchain", "toolchain"), Attr(self, "sdkpath", "sdkpath"),
             Attr(self, "sysroot", "sysroot"), Attr(self, "cc", "ccompiler"),
             Attr(self, "cxx", "cxxcompiler"), Attr(self, "ar", "archiver"),
             Attr(self, "link", "linker")>>
        \o (IF apple THEN <<Attr(self, "lipo", "lipo")>> ELSE <<>>)
        \o <<Lit("includepaths", make_includepaths(self, self.includepaths)),
             Lit("moreincludepaths", ""), Attr(self, "cflags", "cflags"),
             Attr(self, "cxxflags", "cxxflags")>>
        \o (IF apple THEN <<Attr(self, "mflags", "mflags")>> ELSE <<>>)
        \o <<Lit("carchflags", ""), Lit("cconfigflags", ""), Attr(self, "cmoreflags", "cmoreflags"),
             Lit("cenvflags", EnvFlags(env, "CFLAGS")), Lit("cxxenvflags", EnvFlags(env, "CXXFLAGS")),
             Attr(self, "arflags", "arflags"), Lit("ararchflags", ""), Lit("arconfigflags", ""),
             Lit("arenvflags", EnvFlags(env, "ARFLAGS")), Attr(self, "linkflags", "linkflags"),
             Lit("linkarchflags", ""), Lit("linkconfigflags", ""),
             Lit("linkenvflags", EnvFlags(env, "LDFLAGS")), Lit("libs", ""),
             Lit("libpaths", make_libpaths(self, self.libpaths)), Lit("configlibpaths", ""),
             Lit("archlibs", ""), Lit("oslibs", make_libs(self, self.oslibs)),
             Lit("frameworks", "")>>
        \o (IF is_windows(self.target) THEN <<Lit("pdbpath", "ninja.pdb")>> ELSE <<>>)

\* GCCToolchain.write_variables
GCCToolchain_write_variables(self) ==
    Toolchain_write_variables(self)
    \o <<Attr(self, "toolchain", "toolchain"), Attr(self, "cc", "ccompiler"),
         Attr(self, "cxx", "cxxcompiler"), Attr(self, "ar", "archiver"),
         Attr(self, "link", "linker"),
         Lit("includepaths", make_includepaths(self, self.includepaths)),
         Lit("moreincludepaths", ""), Attr(self, "cflags", "cflags"),
         Attr(self, "cxxflags", "cxxflags"), Lit("carchflags", ""), Lit("cconfigflags", ""),
         Attr(self, "cmoreflags", "cmoreflags"), Attr(self, "arflags", "arflags"),
         Lit("ararchflags", ""), Lit("arconfigflags", ""), Attr(self, "linkflags", "linkflags"),
         Lit("linkarchflags", ""), Lit("linkconfigflags", ""), Lit("libs", ""),
         Lit("libpaths", make_libpaths(self, self.libpaths)), Lit("configlibpaths", ""),
         Lit("archlibs", ""), Lit("oslibs", make_libs(self, self.oslibs))>>

\* MSVCToolchain.write_variables
MSVCToolchain_write_variables(self) ==
    Toolchain_write_variables(self)
    \o <<Attr(self, "cc", "ccompiler"), Attr(self, "cxx", "cxxcompiler"),
         Attr(self, "ar", "archiver"), Attr(self, "link", "linker"), Attr(self, "dll", "dller"),
         Attr(self, "toolchain", "toolchain"),
         Lit("includepaths", make_includepaths(self, self.includepaths)),
         Lit("moreincludepaths", ""), Lit("pdbpath", "ninja.pdb"), Attr(self, "cflags", "cflags"),
         Lit("carchflags", ""), Lit("cconfigflags", ""), Attr(self, "cxxflags", "cxxflags"),
         Attr(self, "cmoreflags", "cmoreflags"), Attr(self, "arflags", "arflags"),
         Lit("ararchflags", ""), Lit("arconfigflags", ""), Attr(self, "linkflags", "linkflags"),
         Lit("linkarchflags", ""), Lit("linkconfigflags", ""), Lit("libs", ""),
         Lit("libpaths", make_libpaths(self, self.libpaths)), Lit("configlibpaths", ""),
         Lit("archlibs", ""), Lit("oslibs", make_libs(self, self.oslibs))>>

\* write_variables of the toolchain's class
write_variables(m, env) ==
    WriteVariables(m, IF m.tc.name = "clang" THEN ClangToolchain_write_variables(m.tc, env)
                      ELSE IF m.tc.name = "gcc" THEN GCCToolchain_write_variables(m.tc)
                      ELSE MSVCToolchain_write_variables(m.tc))

\* write_rules of the toolchain's class: the pool and rule names, in order
write_rules(m) ==
    LET self == m.tc
        apple == is_macos(self.target) \/ is_ios(self.target)
    IN  writer_rules(m,
            <<"serial_pool", "copy", "mkdir">>
            \o (IF self.android # NoObject
                THEN <<"aapt", "aaptdeploy", "aaptadd", "javac", "dex", "zip", "zipalign",
                       "codesign">>
                ELSE <<>>)
            \o (IF self.xcode # NoObject
                THEN <<"dsymutil", "plist", "xcassets", "xib", "codesign">> ELSE <<>>)
            \o <<"cc", "cxx">>
            \o (IF self.name = "clang" /\ apple THEN <<"cm", "lipo">> ELSE <<>>)
            \o <<"ar", "link">>
            \o (IF self.name = "msvc" \/ (self.name = "clang" /\ is_windows(self.target))
                THEN <<"dll">> ELSE <<"so">>))

\* <module>.create(host, target, toolchain): the toolchain object, its class
\* kept in the field name
create(host, target, toolchain) ==
    SetAttrs(Toolchain_init(host, target, toolchain), [name |-> toolchain])

\* initialize of the toolchain's class
initialize(m, project, archs, configs, includepaths, dependlibs, libpaths, variables, subninja, env) ==
    IF m.tc.name = "clang"
    THEN ClangToolchain_initialize(m, project, archs, configs, includepaths, dependlibs, libpaths,
                                   variables, subninja, env)
    ELSE IF m.tc.name = "gcc"
    THEN GCCToolchain_initialize(m, project, archs, configs, includepaths, dependlibs, libpaths,
                                 variables, subninja, env)
    ELSE MSVCToolchain_initialize(m, project, archs, configs, includepaths, dependlibs, libpaths,
                                  variables, subninja, env)

\* the interpreter before Generator(...) is called
Fresh == [tc |-> NoObject, out |-> <<>>, status |-> "ok", diag |-> <<>>]

\* the keys of os.environ that Generator.__init__ collects in configure_env
env_keys == {"CC", "AR", "LINK", "CFLAGS", "ARFLAGS", "LINKFLAGS"}

\* Generator.__init__, "if not self.subninja: self.toolchain.write_rules(writer)"
GeneratorRules(m, o) ==
    IF m.status # "ok" \/ o.subninja # <<>> THEN m ELSE write_rules(m)

\* Generator.__init__, the configure_* variables and the toolchain's variables
GeneratorVariables(m, o, env) ==
    IF m.status # "ok" THEN m
    ELSE GeneratorRules(
             write_variables(
                 writer_variables(m, <<<<"configure_toolchain", m.tc.name>>,
                                       <<"configure_archs", o.arch>>,
                                       <<"configure_configs", o.config>>>>),
                 env),
             o)

\* Generator.__init__, toolchain.make_toolchain(...) for the toolchain name
GeneratorToolchain(m, project, includepaths, dependlibs, libpaths, variables, o, env, host, target, toolchain) ==
    IF DOMAIN env.environ \cap env_keys # {} THEN Raise(m, "NameError", "writer")
    ELSE IF toolchain = "intel" THEN Raise(m, "ImportError", "intel")
    ELSE GeneratorVariables(
             initialize([m EXCEPT !.tc = create(host, target, toolchain)], project, o.arch,
                        o.config, includepaths \o o.includepath, dependlibs, libpaths,
                        (IF o.monolithic THEN [monolithic |-> TRUE] ELSE <<>>)
                        @@ (IF o.coverage THEN [coverage |-> TRUE] ELSE <<>>)
                        @@ (IF o.subninja # <<>> THEN [internal_deps |-> TRUE] ELSE <<>>)
                        @@ variables,
                        o.subninja, env),
             o, env)

\* Generator.__init__ for the platforms of the target and the host
GeneratorPlatforms(project, includepaths, dependlibs, libpaths, variables, o, env, host, target) ==
    GeneratorToolchain(
        writer_variables(Fresh,
            <<<<"ninja_required_version", "1.3">>, <<"configure_args", o>>,
              <<"configure_target", target>>, <<"configure_host", host>>>>),
        project, includepaths, dependlibs, libpaths, variables, o, env, host, target,
        make_toolchain(host, target, o.toolchain))

\* Generator.__init__(project, includepaths, dependlibs, libpaths, variables)
\* under the command line options o
Generator_init(project, includepaths, dependlibs, libpaths, variables, o, env) ==
    GeneratorPlatforms(project, includepaths, dependlibs, libpaths, variables, o, env,
                       PlatformOf(o.host, env.sysplatform),
                       PlatformOf(o.target, env.sysplatform))

\* the raw identifiers tried: a known or unknown OS name, then a suffix
RawHeads ==
    {L_linux, L_darwin, L_macos, L_win, L_ios, L_android, L_raspberry, L_tizen,
     L_sunos, L_pnacl, L_plan9, L_cygwin, L_free, L_bsd}
RawTails == {<<>>, L_n2, L_n32, L_n5, L_gnu, L_bsd, L_pi}
RawIdentifiers == {h \o t : h \in RawHeads, t \in RawTails}

Unconstructed == <<"Unconstructed">>

FlagsIdle == fin = <<>> /\ fout = <<>>

GeneratorIdle == inp = <<>> /\ gen = <<>> /\ pc = "idle" /\ last = <<>>

PlatformInit ==
    /\ raw \in RawIdentifiers \cup {None}
    /\ plat = Unconstructed
    /\ FlagsIdle
    /\ GeneratorIdle

\* platform.Platform(raw)
PlatformConstruct ==
    /\ plat = Unconstructed
    /\ \E sysplatform \in SysPlatforms : plat' = PlatformOf(raw, sysplatform)
    /\ UNCHANGED <<raw, fin, fout, inp, gen, pc, last>>

PlatformNext == PlatformConstruct

SpecPlatform == PlatformInit /\ [][PlatformNext]_vars

----------------------------------------------------------------------------
(* Claims about the platform descriptor *)

\* the OS name fragments Platform.__init__ tests for
MatchesCodeFragment(s) ==
    \/ \E f \in {L_linux, L_darwin, L_macos, L_win, L_ios, L_android,
                  L_raspberry, L_pnacl, L_tizen} : StartsWith(s, f)
    \/ Contains(s, L_bsd)

\* C8: "linux-x86_64-gnu" (any identifier starting with "linux") gets the
\* linux tag, "win32" (any identifier starting with "win") gets the windows
\* tag, and an identifier with no known fragment, such as "plan9", is kept
\* unchanged as the tag, with every platform predicate false for it.
C8_Classification ==
    (plat # Unconstructed /\ raw # None) =>
        /\ StartsWith(raw, L_linux) => (plat = L_linux /\ is_linux(plat))
        /\ StartsWith(raw, L_win) => (plat = L_windows /\ is_windows(plat))
        /\ ~MatchesCodeFragment(raw) =>
              /\ plat = raw
              /\ \A t \in DOMAIN PlatformPredicates(plat) : ~PlatformPredicates(plat)[t]

C8_Witness == raw = L_plan9 /\ plat = L_plan9

\* the fixed enumeration of tags of the specification
SpecTags ==
    {"windows", "linux", "macos", "bsd", "ios", "android", "raspberrypi", "tizen",
     "sunos", "pnacl"}

----------------------------------------------------------------------------
(* One generation run: Generator(...) followed by the artifact requests of *)
(* a configure.py                                                          *)

\* the most artifact requests and direct mkdir calls of one run
MaxRequests == 2

\* the command line of configure.py
CommandLine(target, toolchain, arch, config, subninja) ==
    [target |-> target, host |-> None, toolchain |-> toolchain, arch |-> arch,
     config |-> config, includepath |-> <<>>, monolithic |-> FALSE, coverage |-> FALSE,
     subninja |-> subninja]

DefaultLine == CommandLine(None, "None", <<>>, <<L_debug>>, <<>>)

\* the command lines tried under the plain environment
CommandLines ==
    {CommandLine(t, "None", a, <<L_debug>>, <<>>) :
        t \in {L_linux, L_raspberrypi, L_pnacl}, a \in {<<>>, <<L_x86, L_x86_64>>, <<L_x86, L_x86>>}}
    \cup {CommandLine(t, "None", <<>>, c, s) :
            t \in {L_linux, L_macos, L_android}, c \in {<<>>, <<L_deploy>>}, s \in {<<>>, L_sub}}
    \cup {CommandLine(L_ios, "None", <<>>, <<L_debug>>, <<>>),
          CommandLine(L_tizen, "None", <<>>, <<L_debug>>, <<>>),
          CommandLine(L_android, "None", <<L_arm7, L_ppc>>, <<L_debug>>, <<>>),
          CommandLine(L_bsd, "gcc", <<>>, <<L_debug>>, <<>>),
          CommandLine(L_android, "gcc", <<>>, <<L_debug>>, <<>>),
          CommandLine(L_linux, "intel", <<>>, <<L_debug>>, <<>>)}

\* the registry as `reg query` answers: nothing installed, or Visual Studio
\* 15.0 and the Windows 10 SDK
NoRegistry == [runs |-> TRUE, vc |-> {}, vcpath |-> <<"C">>, sdk |-> {}, sdkroot |-> <<"K">>,
               product |-> {}, sdkproduct |-> <<"1","0">>]
Registry == [NoRegistry EXCEPT !.vc = {<<1, 1>>}, !.sdk = {<<1, 1>>}, !.product = {<<1, 1>>}]

\* Visual Studio 14.0 and the Windows 8.1 SDK, each under a later key: the
\* earlier probes end in CalledProcessError
LateRegistry == [NoRegistry EXCEPT !.vc = {<<2, 3>>}, !.sdk = {<<2, 2>>}]

\* `reg` cannot be executed
NoReg == [NoRegistry EXCEPT !.runs = FALSE]

\* the dependent libraries that Generator(...) is given, and the header that
\* makes `dep` resolve
dep == <<"d","e","p">>
gone == <<"g","o","n","e">>
DependLibs == {<<>>, <<dep>>, <<dep, gone>>, <<gone, dep>>}
DepHeader == joinAll(<<L_dotdot, dep \o L_us_lib, dep, dep \o L_dot_h>>)

\* the environment of the run
Environment(sysplatform, reg, environ) ==
    [sysplatform |-> sysplatform, localarch |-> L_x86__64,
     NDK_HOME |-> <<"/","n">>, ANDROID_HOME |-> <<"/","s">>, buildtools |-> <<<<"2","5">>>>,
     files |-> {DepHeader}, dirs |-> {}, prefs |-> <<>>, environ |-> environ, xcrun |-> TRUE,
     reg |-> reg, msvctools |-> <<<<"1","4">>>>]

PlainEnvironment == Environment(L_linux \o L_n2, NoRegistry, <<>>)

\* NDK_HOME is not set; ANDROID_HOME is not set and the working directory has
\* no build-tools directory
NoNdkEnvironment == [PlainEnvironment EXCEPT !.NDK_HOME = <<>>]
NoSdkEnvironment == [PlainEnvironment EXCEPT !.ANDROID_HOME = <<>>, !.buildtools = NoneList]

Environments ==
    {Environment(s, r, <<>>) : s \in {L_win \o L_n32, L_sunos \o L_n5}, r \in {NoRegistry, Registry}}
    \cup {Environment(L_win \o L_n32, r, <<>>) : r \in {LateRegistry, NoReg}}
    \cup {Environment(L_linux \o L_n2, [NoRegistry EXCEPT !.runs = FALSE], [CC |-> "cc"])}

Input(o, env, dependlibs, longint) ==
    [project |-> <<"r">>, includepaths |-> <<>>, dependlibs |-> dependlibs, libpaths |-> <<>>,
     variables |-> [bundleidentifier |-> <<"c",".">> \o L_binname_macro],
     o |-> o, env |-> env, longint |-> longint]

\* the runs tried: each command line under the plain environment, and the
\* default command line under each environment, list of dependent libraries
\* and representation of the path hash
Inputs ==
    {Input(o, PlainEnvironment, <<>>, TRUE) : o \in CommandLines}
    \cup {Input(DefaultLine, env, <<>>, TRUE) : env \in Environments}
    \cup {Input(CommandLine(L_macos, "None", <<>>, <<L_debug>>, <<>>),
                [PlainEnvironment EXCEPT !.xcrun = FALSE], <<>>, TRUE)}
    \cup {Input(CommandLine(L_android, "None", <<>>, <<L_debug>>, <<>>), env, <<>>, TRUE) :
            env \in {NoNdkEnvironment, NoSdkEnvironment}}
    \cup {Input(DefaultLine, PlainEnvironment, d, l) : d \in DependLibs, l \in BOOLEAN}
    \cup {Input(CommandLine(None, "None", <<>>, <<L_debug>>, L_sub), PlainEnvironment, <<dep>>, TRUE)}

\* an artifact request with the optional arguments left out; keywords holds
\* the names of the keyword arguments of the call that are none of these
Request(module, sources) ==
    [module |-> module, sources |-> sources, name |-> None, basepath |-> None,
     configs |-> NoneList, includepaths |-> <<>>, libpaths |-> <<>>, dependlibs |-> NoneList,
     libs |-> <<>>, implicit_deps |-> <<>>, frameworks |-> <<>>, variables |-> NoObject,
     resources |-> NoneList, keywords |-> {}]

a_c == <<"a",".","c">>
b_cc == <<"b",".","c","c">>
h_h == <<"h",".","h">>
x_lib == <<"x",".","l","i","b">>
J_java == <<"J">> \o L_dot_java
w_xib == <<"w">> \o L_dot_xib
x_xcassets == <<"x">> \o L_dot_xcassets
I_plist == <<"I">> \o L_dot_plist

\* the requests a configure.py makes
LibRequests ==
    {Request(<<"r">>, <<a_c>>), Request(<<"t">>, <<a_c, h_h, b_cc>>),
     Request(<<"u">>, <<a_c, x_lib>>),
     [Request(<<"r">>, <<a_c>>) EXCEPT !.keywords = {"externalsources"}]}
SharedLibRequests == {Request(<<"r">>, <<a_c>>)}
BinRequests ==
    {[Request(<<"r">>, <<a_c>>) EXCEPT !.name = <<"b">>, !.libs = <<"r">>,
                                      !.frameworks = <<"Metal">>],
     [Request(<<"r">>, <<a_c>>) EXCEPT !.name = <<"b">>, !.libs = <<"r">>,
                                      !.dependlibs = <<dep>>],
     [Request(<<"r">>, <<a_c>>) EXCEPT !.name = <<"b">>, !.libs = <<"r">>,
                                      !.keywords = {"externalsources"}]}
\* the platform predicates configure.py calls on generator.target, by the
\* name after is_
ConfigurePredicates == {"android", "windows", "macosx", "ios"}
AppRequests ==
    {[Request(<<"r">>, <<a_c>>) EXCEPT !.resources = <<L_AndroidManifest_xml, x_xcassets, w_xib,
                                                    I_plist>>],
     [Request(<<"r">>, <<a_c, J_java>>) EXCEPT !.resources = <<L_AndroidManifest_xml>>]}
\* the directories configure.py asks toolchain.mkdir for: one of its own, and
\* the directory the static libraries of config debug are copied to
MkdirPaths == {<<"o">>, join(L_lib, L_debug)}
MkdirDeps == {NoneList, <<<<"p">>>>}

\* the latest call of configure.py: op and q are the call and its arguments,
\* before the number of statements written before it, ret what it returned, n
\* the number of calls so far and seen the paths toolchain.mkdir was asked for
\* before it
NoRequest ==
    [op |-> "none", q |-> NoObject, before |-> 0, ret |-> <<>>, n |-> 0, seen |-> {},
     lists |-> NoObject]

\* the caller's lists when build_sources has returned from a sharedlib or bin
\* request: where libs is not empty and dependlibs is not None, libs is the
\* caller's own list and += extends it in place; includepaths and libpaths
\* are copied, implicit_deps and dependlibs are only read
CallerLists(q) ==
    [libs |-> IF q.libs # <<>> /\ q.dependlibs # NoneList
              THEN q.libs \o [i \in 1..Len(q.dependlibs) |-> ToStr(q.dependlibs[i])]
              ELSE q.libs,
     dependlibs |-> q.dependlibs,
     includepaths |-> q.includepaths,
     implicit_deps |-> q.implicit_deps]

Init ==
    /\ raw = None
    /\ plat = Unconstructed
    /\ FlagsIdle
    /\ inp \in Inputs
    /\ gen = Fresh
    /\ pc = "start"
    /\ last = NoRequest

\* generator.Generator(project, includepaths, dependlibs, libpaths, variables)
Construct ==
    /\ pc = "start"
    /\ gen' = Generator_init(inp.project, inp.includepaths, inp.dependlibs, inp.libpaths,
                             inp.variables, inp.o, inp.env)
    /\ pc' = IF gen'.status = "ok" THEN "ready" ELSE "stopped"
    /\ UNCHANGED <<raw, plat, fin, fout, inp, last>>

\* a call from configure.py: result is what the call returns and the
\* interpreter after it
Call(op, q, result) ==
    /\ pc = "ready"
    /\ last.n < MaxRequests
    /\ gen' = result.m
    /\ last' = [op |-> op, q |-> q, before |-> Len(gen.out), ret |-> result.ret,
                n |-> last.n + 1,
                seen |-> IF last.op = "mkdir" THEN last.seen \cup {last.q.path}
                         ELSE last.seen,
                lists |-> IF op \in {"sharedlib", "bin"} THEN CallerLists(q) ELSE NoObject]
    /\ pc' = IF result.m.status = "ok" THEN "ready" ELSE "stopped"
    /\ UNCHANGED <<raw, plat, fin, fout, inp>>

\* the parameters of Generator.lib, sharedlib, bin and app
GeneratorParameters(op) ==
    LET linked == {"module", "sources", "basepath", "configs", "includepaths", "libpaths",
                   "implicit_deps", "dependlibs", "libs", "frameworks", "variables"}
    IN  IF op = "lib"
        THEN {"module", "sources", "libname", "basepath", "configs", "includepaths", "variables"}
        ELSE IF op = "sharedlib" THEN linked \cup {"libname"}
        ELSE IF op = "bin" THEN linked \cup {"binname"}
        ELSE linked \cup {"binname", "resources"}

\* a call of a method of the generator: a keyword argument that is no
\* parameter of the method ends the call in TypeError before its body runs
Generator_method(op, q, result) ==
    IF q.keywords \subseteq GeneratorParameters(op) THEN result
    ELSE Raised(gen, "TypeError", "unexpected keyword argument")

\* a call of target.is_<name>(): AttributeError where Platform has no such method
Platform_method(m, name) ==
    IF name \in DOMAIN PlatformPredicates(m.tc.target)
    THEN [m |-> m, ret |-> <<PlatformPredicates(m.tc.target)[name]>>]
    ELSE Raised(m, "AttributeError", "is_" \o name)

\* generator.lib(...)
Lib ==
    \E q \in LibRequests :
        Call("lib", q, Generator_method("lib", q, Toolchain_lib(gen, q, inp.longint)))

\* target.is_android(), ...
Predicate ==
    \E name \in ConfigurePredicates :
        Call("predicate", [name |-> name], Platform_method(gen, name))

\* the implicit_deps a sharedlib or bin request may be given: none, or the
\* list holding the result of the lib request made just before
EarlierLibs == IF last.op = "lib" THEN {<<>>, <<last.ret>>} ELSE {<<>>}

\* the request q with implicit_deps = deps
DependingOn(q, deps) == [q EXCEPT !.implicit_deps = deps]

\* generator.sharedlib(...)
SharedLib ==
    \E q \in SharedLibRequests, deps \in EarlierLibs :
        Call("sharedlib", DependingOn(q, deps),
             Generator_method("sharedlib", q,
                              Toolchain_sharedlib(gen, DependingOn(q, deps), inp.longint)))

\* generator.bin(...)
Bin ==
    \E q \in BinRequests, deps \in EarlierLibs :
        Call("bin", DependingOn(q, deps),
             Generator_method("bin", q,
                              Toolchain_bin(gen, DependingOn(q, deps), None, inp.longint)))

\* generator.app(...)
App ==
    \E q \in AppRequests :
        Call("app", q, Generator_method("app", q, Toolchain_app(gen, q, inp.longint)))

\* toolchain.mkdir(writer, path, implicit, order_only)
Mkdir ==
    \E path \in MkdirPaths, implicit \in MkdirDeps, order_only \in MkdirDeps :
        Call("mkdir", [path |-> path, implicit |-> implicit, order_only |-> order_only],
             Toolchain_mkdir(gen, path, implicit, order_only))

Next == Construct \/ Lib \/ SharedLib \/ Bin \/ App \/ Mkdir \/ Predicate

Spec == Init /\ [][Next]_vars

----------------------------------------------------------------------------
(* The emitted graph and the latest call *)

\* the build edges of build.ninja so far
Graph == Edges(gen.out)

\* the build edges the latest call wrote
Segment == Edges(SubSeq(gen.out, last.before + 1, Len(gen.out)))

\* the mkdir edges of the graph for a directory
MkdirEdges(path) == SelectSeq(Graph, LAMBDA e : e.rule = "mkdir" /\ e.outputs = <<path>>)

\* the run writes a sub-build file (--subninja was given)
SubBuild == inp.o.subninja # <<>>

\* the target takes the Apple builders, which fuse the architectures
AppleTarget == is_macos(gen.tc.target) \/ is_ios(gen.tc.target)

\* the latest call was a lib, sharedlib or bin request that returned
BuiltRequest == last.op \in {"lib", "sharedlib", "bin"} /\ gen.status = "ok"

----------------------------------------------------------------------------
(* C1 *)

\* C1: after any sequence of artifact requests, no output path of the emitted
\* graph is produced by more than one build edge.
C1_DistinctOutputs ==
    LET g == Graph
    IN  \A i, j \in 1..Len(g) :
            i < j => Range(g[i].outputs) \cap Range(g[j].outputs) = {}

----------------------------------------------------------------------------
(* C2 *)

----------------------------------------------------------------------------
(* C3 *)

ProducedFrom(outputs, n) ==
    LET s == Segment
    IN  \E i \in 1..Len(s) : s[i].outputs = outputs /\ Len(s[i].inputs) = n

----------------------------------------------------------------------------
(* C4 *)

\* the latest call was an app request for an Android target
ApkRequest == last.op = "app" /\ hasattr(gen.tc, "target") /\ is_android(gen.tc.target)

\* the rules of the stages of an Android package
StageRules == {"aapt", "aaptdeploy", "javac", "dex", "aaptadd", "codesign", "zipalign"}

\* the stage edges the latest call wrote, in the order written
Stages == SelectSeq(Segment, LAMBDA e : e.rule \in StageRules)

\* the request has Java sources
HasJava == \E i \in 1..Len(last.q.sources) : EndsWith(last.q.sources[i], L_dot_java)

\* edge e takes the outputs of edge d as its inputs
Consumes(e, d) == e.inputs = d.outputs

\* the six stage edges b of one package are chained in the order of C4
SixStages(b) ==
    /\ b[1].rule \in {"aapt", "aaptdeploy"}
    /\ b[2].rule = "javac" /\ b[2].implicit = b[1].outputs
    /\ b[3].rule = "dex" /\ Consumes(b[3], b[2])
    /\ b[4].rule = "aaptadd" /\ Consumes(b[4], b[1])
    /\ Range(b[3].outputs) \subseteq Range(b[4].implicit)
    /\ b[5].rule = "codesign" /\ Consumes(b[5], b[4])
    /\ b[6].rule = "zipalign" /\ Consumes(b[6], b[5])

\* the four stage edges b of one package without Java sources are chained
FourStages(b) ==
    /\ b[1].rule \in {"aapt", "aaptdeploy"}
    /\ b[2].rule = "aaptadd" /\ Consumes(b[2], b[1])
    /\ b[3].rule = "codesign" /\ Consumes(b[3], b[2])
    /\ b[4].rule = "zipalign" /\ Consumes(b[4], b[3])

\* the stage edges are those of one package of k stages per configuration
PackagesOf(k) == Len(Stages) = k * Len(gen.tc.configs)

\* the stage edges of the c-th package of k stages
Package(c, k) == SubSeq(Stages, (c - 1) * k + 1, c * k)

----------------------------------------------------------------------------
(* C5 *)

\* neither ../<lib> nor ../<lib>_lib holds the header <lib>/<lib>.h
Unresolved(lib) ==
    /\ joinAll(<<L_dotdot, lib, lib, lib \o L_dot_h>>) \notin inp.env.files
    /\ joinAll(<<L_dotdot, lib \o L_us_lib, lib, lib \o L_dot_h>>) \notin inp.env.files

\* the dependent libraries of the run that do not resolve
UnresolvedLibs == {i \in 1..Len(inp.dependlibs) : Unresolved(inp.dependlibs[i])}

\* the first of them, which initialize_depends comes to first
FirstUnresolved == inp.dependlibs[CHOOSE i \in UnresolvedLibs : \A j \in UnresolvedLibs : i <= j]

\* the include and library paths initialize_depends has collected
DependPaths == Range(gen.tc.depend_includepaths) \cup Range(gen.tc.depend_libpaths)

\* C5: if a requested dependent library resolves under neither ../<name> nor
\* ../<name>_lib, Generator(...) ends in sys.exit(-1) after a diagnostic that
\* names the library, no build edge is ever written, no request is served and
\* no dependency include or library path has been added for the library.
C5_MissingDependLib ==
    (pc # "start" /\ UnresolvedLibs # {})
        => /\ pc = "stopped"
           /\ gen.status = "exit"
           /\ gen.diag = <<"Unable to locate dependent lib: ", FirstUnresolved>>
           /\ Graph = <<>>
           /\ last = NoRequest
           /\ \A p \in DependPaths :
                  split(p)[2] \notin {FirstUnresolved, FirstUnresolved \o L_us_lib}

\* the run has stopped at a dependent library that does not resolve, after
\* one that does
C5_Witness ==
    /\ pc = "stopped"
    /\ gen.status = "exit"
    /\ inp.dependlibs = <<dep, gone>>
    /\ Len(gen.tc.depend_includepaths) = 1
    /\ gen.diag[2] = gone

----------------------------------------------------------------------------
(* C6 *)

\* the backend is msvc and neither the registry nor the preferences name a
\* Visual Studio installation
MsvcNotLocated ==
    /\ hasattr(gen.tc, "name")
    /\ gen.tc.name = "msvc"
    /\ inp.env.reg.vc = {}
    /\ inp.env.prefs = <<>>

\* C6: if no compiler toolchain can be located for the target, generation
\* terminates with a fatal, reported error and no build edge is written.
C6_FatalWhenNotLocated ==
    (pc # "start" /\ MsvcNotLocated) => gen.status # "ok" /\ Graph = <<>>

----------------------------------------------------------------------------
(* Flag derivation: the compile flags of one source of a request, for a *)
(* backend, target, architecture, target type and configuration         *)

FlagBackends == {"clang", "gcc"}

\* the targets whose objects are ELF, and macos for contrast
ElfTargets == {L_linux, L_bsd, L_raspberrypi, L_android, L_tizen}
FlagTargets == ElfTargets \cup {L_macos}

FlagArchs == {L_x86, L_x86_64, L_arm7, L_arm64}

FlagTypes == {L_lib, L_sharedlib, L_bin}

FlagConfigs == {L_debug, L_release}

\* the msvc backend, on the host and target it is the default of
MsvcFlagInputs ==
    [backend : {"msvc"}, target : {L_windows}, arch : {L_x86, L_x86_64}, targettype : FlagTypes,
     config : FlagConfigs, monolithic : {FALSE}, coverage : {FALSE}, prefs : {<<>>}]

\* the contents of build.json and build/ninja/build.json, in the order read,
\* for the files that exist
SwitchPrefs ==
    {<<>>,
     <<[monolithic |-> TRUE]>>,
     <<[coverage |-> TRUE]>>,
     <<[monolithic |-> FALSE, coverage |-> FALSE]>>,
     <<[monolithic |-> TRUE], [monolithic |-> FALSE, coverage |-> TRUE]>>}

\* --monolithic and --coverage given or not, under each of the preferences,
\* for each backend on a target of its own
SwitchFlagInputs ==
    {[backend |-> b[1], target |-> b[2], arch |-> L_x86_64, targettype |-> L_lib,
      config |-> L_debug, monolithic |-> mono, coverage |-> cov, prefs |-> prefs] :
        b \in {<<"clang", L_linux>>, <<"gcc", L_linux>>, <<"msvc", L_windows>>},
        mono \in BOOLEAN, cov \in BOOLEAN, prefs \in SwitchPrefs}

\* a build.json that names the GCC version of the NDK, or its platform version
AndroidPrefs ==
    {<<[android |-> [gccversion |-> <<"5">>]]>>,
     <<[android |-> [platformversion |-> <<"2","4">>]]>>}

\* the Clang backend for android under each of those preferences
AndroidFlagInputs ==
    [backend : {"clang"}, target : {L_android}, arch : {L_arm7, L_x86_64},
     targettype : {L_lib}, config : {L_debug}, monolithic : {FALSE}, coverage : {FALSE},
     prefs : AndroidPrefs]

\* a build.json that names the Visual Studio directory, the Windows SDK
\* directory, or both
MsvcPrefs ==
    {<<[msvc |-> [toolchain |-> <<"V">>]]>>,
     <<[msvc |-> [sdkpath |-> <<"W">>]]>>,
     <<[msvc |-> [toolchain |-> <<"V">>, sdkpath |-> <<"W">>]]>>}

\* the msvc backend under each of those preferences
MsvcPrefsFlagInputs ==
    [backend : {"msvc"}, target : {L_windows}, arch : {L_x86, L_x86_64}, targettype : {L_bin},
     config : {L_debug}, monolithic : {FALSE}, coverage : {FALSE}, prefs : MsvcPrefs]

FlagInputs ==
    [backend : FlagBackends, target : FlagTargets, arch : FlagArchs, targettype : FlagTypes,
     config : FlagConfigs, monolithic : {FALSE}, coverage : {FALSE}, prefs : {<<>>}]
    \cup MsvcFlagInputs
    \cup SwitchFlagInputs
    \cup AndroidFlagInputs
    \cup MsvcPrefsFlagInputs

\* the environment of a flag derivation: for msvc a Windows host whose
\* registry names Visual Studio and the Windows SDK
FlagEnvironment(backend) ==
    IF backend = "msvc" THEN Environment(L_win \o L_n32, Registry, <<>>) ELSE PlainEnvironment

\* the value of key in a localvariables list, [] where it is not set
ValueOf(pairs, key) ==
    IF \E i \in 1..Len(pairs) : pairs[i][1] = key
    THEN pairs[CHOOSE i \in 1..Len(pairs) : pairs[i][1] = key][2]
    ELSE <<>>

\* the flags of rule cc ($cflags $carchflags $cconfigflags) for a toolchain
\* and the variables cc_variables gives the edge
CompileFlags(self, localvariables) ==
    self.cflags \o ValueOf(localvariables, "carchflags")
    \o ValueOf(localvariables, "cconfigflags")

\* builder_cc of the toolchain m.tc that Generator(...) has left, for the
\* request f: the flags, or the way the run ended
FlagsOf(m, f) ==
    IF m.status # "ok" THEN [status |-> m.status, flags |-> <<>>]
    ELSE IF VariablesError(m.tc, f.arch, FALSE) # ""
    THEN [status |-> "raise", flags |-> <<>>, toolchain |-> m.tc.toolchain]
    ELSE [status |-> "ok",
          flags |-> CompileFlags(m.tc, cc_variables(m.tc, f.config, f.arch, f.targettype,
                                                    <<>>)),
          linkflags |-> m.tc.linkflags,
          monolithic |-> m.tc.build_monolithic,
          coverage |-> m.tc.build_coverage,
          toolchain |-> m.tc.toolchain,
          linking |-> VariablesError(m.tc, f.arch, TRUE),
          gcctoolchain |-> IF m.tc.android # NoObject
                           THEN Android_make_gcc_toolchain_path(m.tc.android, f.arch)
                           ELSE <<>>,
          sysroot |-> IF m.tc.android # NoObject
                      THEN Android_make_sysroot_path(m.tc.android, f.arch)
                      ELSE <<>>]

FlagsInit ==
    /\ raw = None
    /\ plat = Unconstructed
    /\ fin \in FlagInputs
    /\ fout = <<>>
    /\ GeneratorIdle

\* configure.py --toolchain --target --arch --config [--monolithic]
\* [--coverage], and a source compiled for a request of the target type;
\* is_monolithic() and use_coverage() of the toolchain are kept with the flags,
\* with self.toolchain, the exception link_variables would end in ("" for
\* none), and for android the GCC toolchain path and the sysroot of the
\* architecture
DeriveFlags ==
    /\ fin # <<>>
    /\ fout = <<>>
    /\ fout' = FlagsOf(Generator_init(<<"r">>, <<>>, <<>>, <<>>, <<>>,
                                      [CommandLine(fin.target, fin.backend, <<fin.arch>>,
                                                   <<fin.config>>, <<>>)
                                           EXCEPT !.monolithic = fin.monolithic,
                                                  !.coverage = fin.coverage],
                                      [FlagEnvironment(fin.backend)
                                           EXCEPT !.prefs = fin.prefs]),
                       fin)
    /\ UNCHANGED <<raw, plat, fin, inp, gen, pc, last>>

FlagsNext == DeriveFlags

SpecFlags == FlagsInit /\ [][FlagsNext]_vars

\* the flags that ask for position-independent code
PicFlags == {"-fPIC", "-fpic", "-fPIE", "-fpie"}

\* C10: for every backend, every ELF target and every architecture, the
\* compile flags of a source of a shared-library request include a
\* position-independent-code flag.
C10_SharedLibPic ==
    (fout # <<>> /\ fout.status = "ok" /\ fin.targettype = L_sharedlib
     /\ fin.target \in ElfTargets)
        => Range(fout.flags) \cap PicFlags # {}

----------------------------------------------------------------------------
(* C11 *)

\* the flags that define BUILD_DYNAMIC_LINK
DynamicLinkDefines == {"-DBUILD_DYNAMIC_LINK=1", "\"BUILD_DYNAMIC_LINK=1\""}

\* C11: for every backend, target, architecture and configuration, the compile
\* flags derived for a source of a static-library request hold no dynamic-link
\* define; the define is among the flags of a shared-library request only.
C11_NoDynamicDefine ==
    (fout # <<>> /\ fout.status = "ok")
        => /\ fin.targettype = L_lib => Range(fout.flags) \cap DynamicLinkDefines = {}
           /\ Range(fout.flags) \cap DynamicLinkDefines # {} => fin.targettype = L_sharedlib

\* the flags of a static-library source have been derived by the msvc backend
C11_Witness ==
    /\ fout # <<>>
    /\ fout.status = "ok"
    /\ fin.backend = "msvc"
    /\ fin.targettype = L_lib
    /\ "/MT" \in Range(fout.flags)

----------------------------------------------------------------------------
(* C12 *)

\* the latest call was an app request for an Apple target that returned
BundleRequest == last.op = "app" /\ gen.status = "ok" /\ AppleTarget

\* the partial plists among the outputs of a resource-compilation edge
Fragments(e) ==
    {p \in Range(e.outputs) : EndsWith(p, L_xcassets_plist) \/ EndsWith(p, L_xib_plist)}

\* C12: in the graph of an Apple app bundle every asset-catalog (xcassets) and
\* interface-resource (xib) edge of the request produces one partial plist,
\* and a plist edge written after it takes that partial plist as an input.
C12_MergeAfterFragments ==
    BundleRequest =>
        LET s == Segment
        IN  \A i \in 1..Len(s) :
                s[i].rule \in {"xcassets", "xib"}
                    => /\ Cardinality(Fragments(s[i])) = 1
                       /\ \E j \in (i + 1)..Len(s) :
                              /\ s[j].rule = "plist"
                              /\ Fragments(s[i]) \subseteq Range(s[j].inputs)

\* a bundle with an asset catalog and an interface resource has been written
C12_Witness ==
    /\ BundleRequest
    /\ \E i, j, k \in 1..Len(Segment) :
           /\ Segment[i].rule = "xcassets"
           /\ Segment[j].rule = "xib"
           /\ Segment[k].rule = "plist"
           /\ Len(Segment[k].inputs) = 3

----------------------------------------------------------------------------
(* C13 *)

\* the step is an app request
AppStep == last'.n = last.n + 1 /\ last'.op = "app"

\* the target is neither Apple nor Android
NoBundleTarget == ~AppleTarget /\ ~is_android(gen.tc.target)

\* the rules of the edges of a bundle or a package
BundleRules == StageRules \cup {"dsymutil", "plist", "xcassets", "xib", "codesign"}

\* C13 as stated: an app request for a target that is neither Apple nor
\* Android returns an empty result, leaves build.ninja and the toolchain as
\* they were and leaves the run ready for the next request.
C13_Original ==
    [][(AppStep /\ NoBundleTarget)
           => /\ last'.ret = <<>>
              /\ gen' = gen
              /\ pc' = "ready"]_vars

\* C13, amended: an app request for a target that is none of macos, ios,
\* android and tizen returns an empty result, leaves build.ninja and the
\* toolchain as they were and leaves the run ready for the next request; for
\* tizen the request is expanded as a binary request below $buildpath, so it
\* writes the compile and link edges of the binary and no bundle or package
\* edge, and where it returns the result is empty.
C13_SoftSkip ==
    [][(AppStep /\ NoBundleTarget)
           => IF is_tizen(gen.tc.target)
              THEN /\ gen'.status = "ok" => last'.ret = <<>> /\ pc' = "ready"
                   /\ SubSeq(gen'.out, 1, Len(gen.out)) = gen.out
                   /\ \A i \in (Len(gen.out) + 1)..Len(gen'.out) :
                          gen'.out[i].kind = "build" => gen'.out[i].rule \notin BundleRules
              ELSE /\ last'.ret = <<>>
                   /\ gen' = gen
                   /\ pc' = "ready"]_vars

\* an app request for linux, made after another request, has returned
C13_Witness ==
    /\ pc = "ready"
    /\ last.op = "app"
    /\ last.n = 2
    /\ is_linux(gen.tc.target)
    /\ last.ret = <<>>
    /\ Len(gen.out) = last.before

----------------------------------------------------------------------------
(* C14 *)

\* the extension of a source has a registered builder
Registered(name) ==
    /\ splitext(name)[2] # <<>>
    /\ Tail(splitext(name)[2]) \in DOMAIN gen.tc.builders

\* the request without the sources whose extension has no registered builder
Known(q) == [q EXCEPT !.sources = SelectSeq(@, Registered)]

\* the step is a request of kind op
RequestStep(op) == last'.n = last.n + 1 /\ last'.op = op

\* the step leaves what the call result would leave
Leaves(result) == gen' = result.m /\ last'.ret = result.ret

----------------------------------------------------------------------------
(* C15 *)

\* the values build.ninja gives variable key, in the order written
Written(key) ==
    LET s == SelectSeq(gen.out, LAMBDA e : e.kind = "variable" /\ e.key = key)
    IN  [i \in 1..Len(s) |-> s[i].value]

\* a run of the default command line on a linux host, with no dependent
\* library: the backend is clang
PlainClangRun ==
    /\ pc # "start"
    /\ inp.o = DefaultLine
    /\ inp.dependlibs = <<>>
    /\ StartsWith(inp.env.sysplatform, L_linux)

\* C15: the compiler, archiver and linker written to build.ninja are the
\* environment overrides CC and AR where these are set and the default names
\* otherwise, and Generator(...) completes in both cases.
C15_EnvironmentOverrides ==
    PlainClangRun
        => /\ gen.status = "ok"
           /\ Written("cc") = <<EnvOr(inp.env, "CC", "clang")>>
           /\ Written("ar") = <<EnvOr(inp.env, "AR", "ar")>>
           /\ Written("link") = <<EnvOr(inp.env, "CC", "clang")>>

----------------------------------------------------------------------------
(* C16 *)

\* the backend that Generator(...) built probes the host: msvc queries the
\* registry, clang for macos and ios runs xcrun
Probing ==
    /\ hasattr(gen.tc, "name")
    /\ \/ gen.tc.name = "msvc"
       \/ gen.tc.name = "clang" /\ (is_macos(gen.tc.target) \/ is_ios(gen.tc.target))

\* every candidate of a probe loop failed: no key names a Visual Studio
\* installation, or none names a usable Windows SDK
Exhausted ==
    /\ gen.tc.name = "msvc"
    /\ inp.env.prefs = <<>>
    /\ \/ ~inp.env.reg.runs
       \/ inp.env.reg.vc = {}
       \/ {h \in inp.env.reg.sdk : h[1] = 1 => h \in inp.env.reg.product} = {}

\* C16: a probe command that fails, whatever the failure, counts as not
\* found and probing goes on with the next candidate: no probe failure
\* aborts Generator(...) with an exception, and generation is fatal exactly
\* when every candidate is exhausted.
C16_ProbeFailureTolerated ==
    (pc # "start" /\ Probing)
        => /\ gen.status # "raise"
           /\ (gen.status = "exit") = Exhausted

----------------------------------------------------------------------------
(* C17 *)

\* the target is android and neither the environment nor a preferences file
\* gives the NDK path, or neither gives the SDK path
AndroidPathUnset ==
    /\ inp.o.target = L_android
    /\ inp.env.prefs = <<>>
    /\ inp.env.NDK_HOME = <<>> \/ inp.env.ANDROID_HOME = <<>>

\* C17: for an android target with the SDK or the NDK path unset, generation
\* terminates fatally and no build edge is written.
C17_FatalWhenAndroidPathUnset ==
    (pc # "start" /\ AndroidPathUnset) => gen.status # "ok" /\ Graph = <<>>

----------------------------------------------------------------------------
(* C18 *)

\* the resource files of an app request, as the builders name them
ResourceFiles(q) ==
    {joinAll(<<IF q.basepath = None THEN <<>> ELSE q.basepath, q.module, q.resources[i]>>) :
        i \in 1..Len(q.resources)}

\* the latest call was an app request for an Android or an Apple target, and
\* a resource file it names does not exist
MissingResource ==
    /\ last.op = "app"
    /\ AppleTarget \/ is_android(gen.tc.target)
    /\ ResourceFiles(last.q) \ inp.env.files # {}

\* C18: an app request for Android or Apple that names a resource file which
\* does not exist fails fatally and writes no package or bundle edge.
C18_MissingResourceFatal ==
    MissingResource
        => /\ gen.status # "ok"
           /\ LET s == Segment
              IN  \A i \in 1..Len(s) : s[i].rule \notin BundleRules

----------------------------------------------------------------------------
(* C19 *)

\* the latest call was an artifact request that returned, other than an app
\* request for a target without app concept (which expands nothing)
ArtifactRequest ==
    /\ last.op \in {"lib", "sharedlib", "bin", "app"}
    /\ gen.status = "ok"
    /\ last.op = "app" => AppleTarget \/ is_android(gen.tc.target) \/ is_tizen(gen.tc.target)

\* the configurations the latest request was expanded for
RequestConfigs == IF last.q.configs = NoneList THEN gen.tc.configs ELSE last.q.configs

\* the concatenation of a sequence of sequences
RECURSIVE Chain(_)
Chain(seqs) == IF seqs = <<>> THEN <<>> ELSE Head(seqs) \o Chain(Tail(seqs))

\* the files a sequence of edges produces, and the files it takes, in order
Produced(edges) == Chain([i \in 1..Len(edges) |-> edges[i].outputs])
Taken(edges) == Chain([i \in 1..Len(edges) |-> edges[i].inputs])

\* a compile edge; a link edge takes an object of the objects objs; a fusion
\* edge takes a per-architecture binary of the binaries nodes
CompileEdge(e) == e.rule \in {"cc", "cxx", "cm"}
LinkEdge(e, objs) == ~CompileEdge(e) /\ Range(e.inputs) \cap objs # {}
FusionEdge(e, objs, nodes) ==
    ~CompileEdge(e) /\ ~LinkEdge(e, objs) /\ Range(e.inputs) \cap nodes # {}

\* the edge writes below $buildpath/<config>/, where the objects and the
\* per-architecture binaries of the configuration go
BelowConfig(e, config) ==
    \A i \in 1..Len(e.outputs) : StartsWith(e.outputs[i], joinAll(<<L_buildpath, config, <<>>>>))

\* C19: in the edges of every artifact request, for each configuration, the
\* compile edges and the link edge of every architecture come before every
\* fusion edge of the configuration, no compile or link edge lies between two
\* of its fusion edges (the fusion builder runs once), and the fusion edges
\* take exactly the link outputs of that configuration, each once and in order.
C19_FusionAfterNodes ==
    ArtifactRequest =>
        LET s == Segment
            objs == Range(Produced(SelectSeq(s, CompileEdge)))
            links == SelectSeq(s, LAMBDA e : LinkEdge(e, objs))
            nodes == Range(Produced(links))
            node(i) == CompileEdge(s[i]) \/ LinkEdge(s[i], objs)
        IN  \A c \in 1..Len(RequestConfigs) :
                LET config == RequestConfigs[c]
                    mine == SelectSeq(links, LAMBDA e : BelowConfig(e, config))
                    fused(i) == FusionEdge(s[i], objs, Range(Produced(mine)))
                IN  /\ Len(mine) = Len(gen.tc.archs)
                    /\ \A i, j \in 1..Len(s) :
                           (node(i) /\ BelowConfig(s[i], config) /\ fused(j)) => i < j
                    /\ \A i, j, k \in 1..Len(s) :
                           (fused(i) /\ fused(j) /\ i < k /\ k < j) => ~node(k)
                    /\ Taken(SelectSeq(s, LAMBDA e : FusionEdge(e, objs, nodes)
                                                      /\ Range(e.inputs) \cap Range(Produced(mine)) # {}))
                           = Produced(mine)

\* a request for four architectures and two configurations has returned: its
\* edges hold eight link edges and, the target having no fusion, eight copy
\* edges that take them
C19_Witness ==
    /\ ArtifactRequest
    /\ Len(gen.tc.archs) = 4
    /\ Len(RequestConfigs) = 2
    /\ LET s == Segment
           objs == Range(Produced(SelectSeq(s, CompileEdge)))
           links == SelectSeq(s, LAMBDA e : LinkEdge(e, objs))
           nodes == Range(Produced(links))
       IN  /\ Len(links) = 8
           /\ Len(SelectSeq(s, LAMBDA e : FusionEdge(e, objs, nodes))) = 8

----------------------------------------------------------------------------
(* C20 *)

\* the value a switch ends with: that of the last preferences file that
\* names it, and that of the command line where none does
Final(key, given) ==
    LET naming == {i \in 1..Len(fin.prefs) : key \in DOMAIN fin.prefs[i]}
    IN  IF naming = {} THEN given
        ELSE fin.prefs[CHOOSE i \in naming : \A j \in naming : j <= i][key]

\* the flags that define BUILD_MONOLITHIC
MonolithicDefines == {"-DBUILD_MONOLITHIC=1", "\"BUILD_MONOLITHIC=1\""}

\* C20: in every backend the preference files are read after the variable
\* overrides and before the flags are derived: the value of monolithic and of
\* coverage in effect is the one of the preferences where they name the
\* switch, and the BUILD_MONOLITHIC define and, for clang and gcc (msvc
\* derives no flag from coverage), --coverage among the compile and the link
\* flags are there exactly when that final value is true.
C20_PrefsDecideFlags ==
    (fout # <<>> /\ fout.status = "ok")
        => /\ fout.monolithic = Final("monolithic", fin.monolithic)
           /\ fout.coverage = Final("coverage", fin.coverage)
           /\ (Range(fout.flags) \cap MonolithicDefines # {}) = fout.monolithic
           /\ fin.backend # "msvc"
                  => /\ ("--coverage" \in Range(fout.flags)) = fout.coverage
                     /\ ("--coverage" \in Range(fout.linkflags)) = fout.coverage

\* --monolithic and --coverage were given and the later preferences file
\* clears monolithic: the flags hold --coverage and no monolithic define
C20_Witness ==
    /\ fout # <<>>
    /\ fout.status = "ok"
    /\ fin.monolithic
    /\ fin.coverage
    /\ Len(fin.prefs) = 2
    /\ ~fout.monolithic
    /\ Range(fout.flags) \cap MonolithicDefines = {}
    /\ "--coverage" \in Range(fout.flags)


----------------------------------------------------------------------------
(* C21 *)

\* the flag lists of a toolchain
FlagLists ==
    {"cflags", "cxxflags", "mflags", "arflags", "linkflags", "oslibs", "frameworks",
     "includepaths", "depend_includepaths", "depend_libpaths"}

\* a is a prefix of b
IsPrefix(a, b) == Len(a) <= Len(b) /\ SubSeq(b, 1, Len(a)) = a

\* C21: once Generator(...) has returned, every call on the generator leaves
\* each flag list of the toolchain with its former content as a prefix:
\* elements are appended, none is removed or replaced.
C21_AppendOnly ==
    [][pc = "ready"
           => \A l \in FlagLists :
                  hasattr(gen.tc, l) => hasattr(gen'.tc, l) /\ IsPrefix(gen.tc[l], gen'.tc[l])]_vars

\* a request with a framework of its own has been linked for macos: the
\* toolchain's framework list has grown beyond its two base frameworks
C21_Witness ==
    /\ pc = "ready"
    /\ last.op = "bin"
    /\ is_macos(gen.tc.target)
    /\ IsPrefix(<<"Cocoa", "CoreFoundation">>, gen.tc.frameworks)
    /\ Len(gen.tc.frameworks) > 2

----------------------------------------------------------------------------
(* C22 *)

\* the latest call was a sharedlib or bin request that was given the results
\* of earlier lib requests as implicit_deps, and it returned
DependentRequest ==
    /\ last.op \in {"sharedlib", "bin"}
    /\ gen.status = "ok"
    /\ last.q.implicit_deps # <<>>

\* the final artifacts of the libraries in deps for a configuration
FinalLibs(deps, config) == UNION {Range(deps[k][config]) : k \in 1..Len(deps)}

\* C22: every link edge that a sharedlib or bin request writes for a
\* configuration declares as implicit dependencies all final artifacts, for
\* that configuration, of the libraries given as implicit_deps and none of
\* another configuration, and each of them is the output of an edge written
\* before the link edge.
C22_LinkAfterLibs ==
    DependentRequest =>
        LET s == Segment
            g == Graph
            deps == last.q.implicit_deps
            objs == Range(Produced(SelectSeq(s, CompileEdge)))
        IN  \A i \in 1..Len(s), c \in 1..Len(RequestConfigs) :
                (LinkEdge(s[i], objs) /\ BelowConfig(s[i], RequestConfigs[c]))
                    => /\ FinalLibs(deps, RequestConfigs[c]) \subseteq Range(s[i].implicit)
                       /\ \A d \in 1..Len(RequestConfigs) :
                              d # c => Range(s[i].implicit)
                                           \cap FinalLibs(deps, RequestConfigs[d]) = {}
                       /\ \A p \in FinalLibs(deps, RequestConfigs[c]) :
                              \E j \in 1..(Len(g) - Len(s)) : p \in Range(g[j].outputs)

\* a bin request for two configurations was given the result of the lib
\* request before it, and a link edge of the release configuration declares
\* a library
C22_Witness ==
    /\ DependentRequest
    /\ last.op = "bin"
    /\ Len(RequestConfigs) = 2
    /\ LET s == Segment
           objs == Range(Produced(SelectSeq(s, CompileEdge)))
       IN  \E i \in 1..Len(s) :
               /\ LinkEdge(s[i], objs)
               /\ BelowConfig(s[i], L_release)
               /\ s[i].implicit # <<>>

----------------------------------------------------------------------------
(* C23 *)

\* the value of a variable of a build edge, [] where the edge has none
EdgeVariable(e, key) ==
    IF \E k \in 1..Len(e.variables) : e.variables[k][1] = key
    THEN e.variables[CHOOSE k \in 1..Len(e.variables) : e.variables[k][1] = key][2]
    ELSE <<>>

\* the frameworks of the Clang toolchain when initialize() has returned
\* (build_xcode_toolchain for the Apple targets, none elsewhere)
BaseFrameworks ==
    IF is_macos(gen.tc.target) THEN <<"Cocoa", "CoreFoundation">>
    ELSE IF is_ios(gen.tc.target) THEN <<"CoreGraphics", "UIKit", "Foundation">>
    ELSE <<>>

\* C23: with the Clang toolchain, the frameworks variable of every link edge
\* of a sharedlib or bin request is the toolchain's base frameworks followed
\* by the frameworks of that request, and the toolchain's own list is still
\* the base list after the request.
C23_FrameworksPerRequest ==
    (ArtifactRequest /\ last.op \in {"sharedlib", "bin"} /\ gen.tc.name = "clang")
        => LET s == Segment
               objs == Range(Produced(SelectSeq(s, CompileEdge)))
           IN  /\ \A i \in 1..Len(s) :
                      LinkEdge(s[i], objs)
                          => EdgeVariable(s[i], "frameworks")
                                 = Prefixed("-framework ", BaseFrameworks \o last.q.frameworks)
               /\ gen.tc.frameworks = BaseFrameworks

----------------------------------------------------------------------------
(* C24 *)

\* C24: when a sharedlib or bin request has returned, the caller's libs,
\* dependlibs, includepaths and implicit_deps lists hold what they held when
\* the request was made.
C24_CallerListsUnchanged ==
    (last.op \in {"sharedlib", "bin"} /\ gen.status = "ok")
        => /\ last.lists.libs = last.q.libs
           /\ last.lists.dependlibs = last.q.dependlibs
           /\ last.lists.includepaths = last.q.includepaths
           /\ last.lists.implicit_deps = last.q.implicit_deps

----------------------------------------------------------------------------
(* C25 *)

\* the paths build_sources hands to compile_file for the sources of the
\* latest request
SourceFiles ==
    {IF isabs(name) THEN name
     ELSE IF gen.tc.subninja # <<>>
          THEN join(gen.tc.subninja,
                    joinAll(<<IF last.q.basepath = None THEN <<>> ELSE last.q.basepath,
                              last.q.module, name>>))
          ELSE joinAll(<<IF last.q.basepath = None THEN <<>> ELSE last.q.basepath,
                         last.q.module, name>>) :
        name \in Range(last.q.sources)}

\* C25: every build edge that a lib, sharedlib or bin request writes for an
\* entry of its source list uses one of the compile rules cc, cxx and cm.
C25_SourcesCompiled ==
    (last.op \in {"lib", "sharedlib", "bin"} /\ gen.status = "ok")
        => LET s == Segment
               files == SourceFiles
           IN  \A i \in 1..Len(s) :
                   Range(s[i].inputs) \cap files # {} => CompileEdge(s[i])

----------------------------------------------------------------------------
(* C26 *)

\* the minimum-version flag build_xcode_toolchain derives from a deployment
\* target
VersionMin(deploymenttarget) ==
    (IF is_macos(gen.tc.target) THEN "-mmacosx-version-min=" ELSE "-miphoneos-version-min=")
    \o deploymenttarget

\* C26: on the Apple targets, once Generator(...) has returned, the
\* deployment target of the Clang toolchain and of its compiler flags is the
\* deployment target of the Xcode extension.
C26_OneDeploymentTarget ==
    (pc = "ready" /\ AppleTarget)
        => /\ gen.tc.deploymenttarget = gen.tc.xcode.deploymenttarget
           /\ VersionMin(gen.tc.xcode.deploymenttarget) \in Range(gen.tc.cflags)

----------------------------------------------------------------------------
(* C27 *)

\* the flags of an android source were derived under a build.json whose
\* android section gives key
AndroidPref(key) ==
    /\ fout # <<>>
    /\ fout.status = "ok"
    /\ fin.target = L_android
    /\ fin.prefs # <<>>
    /\ hasattr(fin.prefs[1], "android")
    /\ hasattr(fin.prefs[1].android, key)

\* C27: on android, a gccversion given in the preferences is the version in
\* the GCC toolchain directory of the architecture, which the -gcc-toolchain
\* flag and the archiver path are made of, and a platformversion given there
\* is the one in the sysroot.
C27_PrefsInEffect ==
    /\ AndroidPref("gccversion")
           => /\ Contains(fout.gcctoolchain,
                          L_dash \o fin.prefs[1].android.gccversion \o <<"/">>)
              /\ ~Contains(fout.gcctoolchain, <<"-", "4", ".", "9", "/">>)
              /\ "-gcc-toolchain" \in Range(fout.flags)
              /\ ToStr(fout.gcctoolchain) \in Range(fout.flags)
    /\ AndroidPref("platformversion")
           => Contains(fout.sysroot, L_android \o L_dash \o fin.prefs[1].android.platformversion)

----------------------------------------------------------------------------
(* C28 *)

\* Generator(...) returned with the msvc backend and a toolchain path, found
\* in the registry or given by build.json
MsvcResolved ==
    /\ fout # <<>>
    /\ fin.backend = "msvc"
    /\ hasattr(fout, "toolchain")
    /\ fout.toolchain # <<>>

\* C28: with the msvc backend, once the toolchain path is resolved, the
\* variables of a compile edge and of a link edge are derived without an
\* exception.
C28_VersionsDefined ==
    MsvcResolved => fout.status = "ok" /\ fout.linking = ""

----------------------------------------------------------------------------
(* C29 *)

\* the latest call ended in the exception named
EndedIn(exception) == gen.status = "raise" /\ gen.diag[1] = exception

\* C29: for every target, a platform predicate configure.py calls exists on
\* the platform descriptor, and a lib or bin call with the keyword arguments
\* configure.py passes is accepted by the method.
C29_CallsAccepted ==
    pc # "start"
        => /\ last.op = "predicate" => ~EndedIn("AttributeError")
           /\ last.op \in {"lib", "bin"} => ~EndedIn("TypeError")

----------------------------------------------------------------------------
(* C30 *)

\* C30: in a top-level and in a sub-build file, a call of toolchain.mkdir
\* returns a list of paths and never None, and an app request for android
\* completes in a sub-build file.
C30_MkdirReturnsPaths ==
    pc # "start"
        => /\ last.op = "mkdir" => last.ret # NoneList
           /\ (last.op = "app" /\ is_android(gen.tc.target) /\ SubBuild) => gen.status = "ok"

====
